---- MODULE Spec2Model ----
(***************************************************************************)
(* Model of the examples of go-fluency:                                    *)
(*   - example2.Run          (worker pool, example2.go:54-104)            *)
(*   - example2.RunPipeline  (three-stage pipeline, example2.go:107-160)  *)
(*   - processor.ProcessConcurrent (example6, example3.go:374-438)        *)
(*   - processor.Process, processor.ProcessBatch (example3.go:314-371)     *)
(*   - main (main.go), example8.concurrentCounter and example8.Run         *)
(*     (example2.go:212-291)                                               *)
(* and of the in-memory stores, example4.UserService (example4.go:24-101), *)
(* example5.taskService (example3.go:605-688) and example3.UserService     *)
(* (example3.go:55-125).                                                   *)
(* One behaviour is one call of one of the functions, or one life of a     *)
(* store under the calls of its caller; prog records                       *)
(* which.  Goroutines are processes with a program counter; a buffered     *)
(* channel is a sequence plus a close counter; an unbuffered channel is a  *)
(* rendezvous of the sender's and the receiver's step.                     *)
(***************************************************************************)
EXTENDS Integers, Sequences, FiniteSets, TLC

\* ---- bounds of the model (example2.Run uses 3 workers, 10 jobs and
\* ---- channels of capacity 10; the model scales them down)
NumWorkers == 2
NumJobs == 3
JobsCap == 3
ResultsCap == 3
MaxData == 2
NumCPU == 2
MaxBatch == 2
MaxClock == 2
MaxArgs == 2
MaxN == 3

\* ---- program constants
PipelineCount == 5
DefaultBatch == 100
MinAge == 0
MaxAge == 150

\* strings are sequences of byte values
Items == { <<104, 105>>, <<71, 111, 33>> }

RECURSIVE SeqsUpTo(_, _)
SeqsUpTo(S, n) ==
    IF n = 0 THEN { <<>> }
    ELSE LET shorter == SeqsUpTo(S, n - 1)
         IN  shorter \cup { Append(s, x) : s \in { t \in shorter : Len(t) = n - 1 }, x \in S }

DataChoices == SeqsUpTo(Items, MaxData)

\* a command-line argument: the number of leading dashes and what follows them
Arg(dashes, name) == [dashes |-> dashes, name |-> name]

\* "3", "--example3", "-example3", "--example2", "--nosuch"
Tokens == { Arg(0, "3"), Arg(2, "example3"), Arg(1, "example3"), Arg(2, "example2"),
            Arg(2, "nosuch") }

ArgChoices == SeqsUpTo(Tokens, MaxArgs)

VARIABLES
    prog,          \* which function this behaviour runs
    mainPc,        \* position of the calling goroutine
    retErr,        \* error value returned ("nil" is Go's nil)
    numWorkers,    \* numWorkers (Run) / workers (ProcessConcurrent)
    ctxErr,        \* ctx.Err(): "nil" | "DeadlineExceeded" | "Canceled"
    jobs,          \* buffer of the jobs channel
    jobsClosed,    \* number of close(jobs) calls
    results,       \* buffer of the results channel
    resultsClosed, \* number of close(results) calls
    wg,            \* sync.WaitGroup counter
    wpc,           \* worker -> position
    wjob,          \* worker -> job (or index) it holds
    wgDone,        \* worker -> number of wg.Done() calls it made
    prodPc,        \* producer goroutine position
    prodI,         \* producer loop variable i
    collPc,        \* result collector goroutine (Run) position
    collected,     \* values the collecting loop received, in order
    received,      \* history: jobs received by workers, in order
    sent,          \* history: values sent on results, in order
    panicked,      \* history: the run-time panics raised (send on / close of a closed channel)
    data,          \* ProcessConcurrent: the input slice
    result,        \* ProcessConcurrent: the result slice
    closerPc,      \* ProcessConcurrent: the wg.Wait / close(results) goroutine
    genPc, genI,   \* pipeline generator
    sqPc, sqVal,   \* pipeline square stage
    incPc, incVal, \* pipeline +1 stage
    numbersClosed, \* number of close(numbers) calls
    squaresClosed, \* number of close(squares) calls
    retNil,        \* processor: the slice returned is nil
    procI,         \* Process / ProcessBatch: the loop variable i (1-based)
    processed,     \* ProcessBatch: processed
    batchSize,     \* ProcessBatch: batchSize
    batchEnd,      \* ProcessBatch: end
    store,         \* s.users / s.tasks: key -> address of the entity
    heap,          \* address -> the User / Task struct stored there
    now,           \* the clock read by time.Now()
    lastOp,        \* the caller's last step: the call, its argument and what it returned
    live,          \* history: key -> entity, as the successful calls so far define it
    args,          \* main: os.Args[1:]
    flagSet,       \* main: the flags flag.Parse set to true
    runI,          \* main: which of the if statements of lines 59-163 is next
    ran,           \* main: the functions main called, in order
    exitCode,      \* main: the exit status of the process
    ccN,           \* concurrentCounter: the argument n
    ccI,           \* concurrentCounter: the loop variable i
    count,         \* concurrentCounter: count
    mu,            \* concurrentCounter: the goroutine that holds mu, 0 if unlocked
    reg,           \* concurrentCounter: goroutine -> the count it read in count++
    ccRet,         \* concurrentCounter: the value returned
    srvPc,         \* example8.Run: position of the server goroutine
    shutdown,      \* example8.Run: srv.Shutdown was called
    doneClosed     \* example8.Run: number of close(done) calls

ctl   == <<prog, mainPc, retErr, numWorkers>>
chans == <<jobs, jobsClosed, results, resultsClosed>>
wk    == <<wg, wpc, wjob, wgDone>>
prod  == <<prodPc, prodI>>
coll  == <<collPc, collected>>
hist  == <<received, sent, panicked>>
pcv   == <<data, result, closerPc>>
pipe  == <<genPc, genI, sqPc, sqVal, incPc, incVal, numbersClosed, squaresClosed>>
seqv  == <<procI, processed, batchSize, batchEnd>>
storev == <<store, heap, now, lastOp, live>>
mainv == <<args, flagSet, runI, ran, exitCode>>
cntv  == <<ccN, ccI, count, mu, reg, ccRet>>
srvv  == <<srvPc, shutdown, doneClosed>>
more  == <<mainv, cntv, srvv>>
ext   == <<seqv, storev, more>>
vars  == <<ctl, ctxErr, chans, wk, prod, coll, hist, pcv, pipe, retNil, ext>>

Workers == DOMAIN wpc

\* the caller has made no call (since it last wrote to an entity)
NoOp(nokey) ==
    [name |-> "none", obj |-> 0, key |-> nokey, err |-> "nil", ret |-> 0, list |-> <<>>,
     op |-> "", field |-> ""]

\* <-ctx.Done() is ready
CtxDone == ctxErr # "nil"

\* context cancellation: the first cause wins, later trips change nothing
CtxCancel(err) == IF ctxErr = "nil" THEN err ELSE ctxErr

\* a receive that reads the head of the buffer and leaves it there
ChanPeek(ch) == ch

\* receiving from a buffered channel removes its head
ChanRecv(ch) == Tail(ch)

\* wg.Done() of worker w
WgDone(w) ==
    /\ wg' = wg - 1
    /\ wgDone' = [wgDone EXCEPT ![w] = @ + 1]

Init ==
    /\ prog \in {"Run", "RunPipeline", "ProcessConcurrent", "Process", "ProcessBatch", "main",
                 "concurrentCounter", "example8.Run"}
    /\ mainPc = "start"
    /\ retErr = "nil"
    /\ numWorkers \in (IF prog = "ProcessConcurrent" THEN 0..NumWorkers ELSE {0})
    /\ ctxErr = "nil"
    /\ jobs = <<>> /\ jobsClosed = 0
    /\ results = <<>> /\ resultsClosed = 0
    /\ wg = 0
    /\ wpc = <<>> /\ wjob = <<>> /\ wgDone = <<>>
    /\ prodPc = "idle" /\ prodI = 0
    /\ collPc = "idle" /\ collected = <<>>
    /\ received = <<>> /\ sent = <<>> /\ panicked = {}
    /\ data \in (IF prog \in {"ProcessConcurrent", "Process", "ProcessBatch"}
                 THEN DataChoices ELSE { <<>> })
    /\ result = <<>>
    /\ closerPc = "idle"
    /\ genPc = "idle" /\ genI = 0
    /\ sqPc = "idle" /\ sqVal = 0
    /\ incPc = "idle" /\ incVal = 0
    /\ numbersClosed = 0 /\ squaresClosed = 0
    /\ retNil = TRUE
    /\ procI = 0 /\ processed = 0 /\ batchEnd = 0
    /\ batchSize \in (IF prog = "ProcessBatch" THEN (-1)..MaxBatch ELSE {0})
    /\ store = <<>> /\ heap = <<>> /\ now = 0
    /\ lastOp = NoOp(0)
    /\ live = <<>>
    /\ args \in (IF prog = "main" THEN ArgChoices ELSE { <<>> })
    /\ flagSet = {} /\ runI = 0 /\ ran = <<>> /\ exitCode = 0
    /\ ccN \in (IF prog = "concurrentCounter" THEN (-1)..MaxN ELSE {0})
    /\ ccI = 0 /\ count = 0 /\ mu = 0 /\ reg = <<>> /\ ccRet = 0
    /\ srvPc = "idle" /\ shutdown = FALSE /\ doneClosed = 0

(***************************************************************************)
(* example2.Run                                                            *)
(***************************************************************************)

\* job + 2 in place of job * 2
TransformPlusTwo(job) == job + 2

\* job * 2
Transform(job) == job * 2

\* lines 56-92: context, channels, WaitGroup, workers, collector, producer
RunStart ==
    /\ prog = "Run" /\ mainPc = "start"
    /\ numWorkers' = NumWorkers
    /\ wg' = NumWorkers
    /\ wpc' = [w \in 1..NumWorkers |-> "select"]
    /\ wjob' = [w \in 1..NumWorkers |-> 0]
    /\ wgDone' = [w \in 1..NumWorkers |-> 0]
    /\ collPc' = "range"
    /\ prodPc' = "loop" /\ prodI' = 1
    /\ mainPc' = "wait"
    /\ UNCHANGED <<ext, retNil, prog, retErr, ctxErr, chans, collected, hist, pcv, pipe>>

\* the 2 s timer of context.WithTimeout fires
RunDeadline ==
    /\ prog = "Run" /\ mainPc # "returned"
    /\ ctxErr = "nil"
    /\ ctxErr' = CtxCancel("DeadlineExceeded")
    /\ UNCHANGED <<ext, retNil, ctl, chans, wk, prod, coll, hist, pcv, pipe>>

\* the ctx.Done case calls wg.Done() itself and the deferred call runs too
WorkerCtxDoneTwice(w) ==
    /\ prog = "Run" /\ wpc[w] = "select"
    /\ CtxDone
    /\ wpc' = [wpc EXCEPT ![w] = "exited"]
    /\ wg' = wg - 2
    /\ wgDone' = [wgDone EXCEPT ![w] = @ + 2]
    /\ UNCHANGED <<ext, retNil, ctl, ctxErr, chans, wjob, prod, coll, hist, pcv, pipe>>

\* Worker.Start, case <-w.ctx.Done(): return (deferred wg.Done)
WorkerCtxDone(w) ==
    /\ prog = "Run" /\ wpc[w] = "select"
    /\ CtxDone
    /\ wpc' = [wpc EXCEPT ![w] = "exited"]
    /\ WgDone(w)
    /\ UNCHANGED <<ext, retNil, ctl, ctxErr, chans, wjob, prod, coll, hist, pcv, pipe>>

\* Worker.Start, case job, ok := <-w.jobs with ok = true
WorkerRecv(w) ==
    /\ prog = "Run" /\ wpc[w] = "select"
    /\ jobs # <<>>
    /\ wjob' = [wjob EXCEPT ![w] = Head(jobs)]
    /\ jobs' = ChanRecv(jobs)
    /\ received' = Append(received, Head(jobs))
    /\ wpc' = [wpc EXCEPT ![w] = "work"]
    /\ UNCHANGED <<ext, retNil, ctl, ctxErr, jobsClosed, results, resultsClosed, wg, wgDone,
                   prod, coll, sent, panicked, pcv, pipe>>

\* the closed jobs channel makes the worker loop again (continue) instead of return
WorkerJobsClosedSpin(w) ==
    /\ prog = "Run" /\ wpc[w] = "select"
    /\ jobs = <<>> /\ jobsClosed > 0
    /\ UNCHANGED vars

\* Worker.Start, case job, ok := <-w.jobs with ok = false: return
WorkerJobsClosed(w) ==
    /\ prog = "Run" /\ wpc[w] = "select"
    /\ jobs = <<>> /\ jobsClosed > 0
    /\ wpc' = [wpc EXCEPT ![w] = "exited"]
    /\ WgDone(w)
    /\ UNCHANGED <<ext, retNil, ctl, ctxErr, chans, wjob, prod, coll, hist, pcv, pipe>>

\* the worker gives up its result when the context is done at the send
WorkerSendUnlessDone(w) ==
    /\ prog = "Run" /\ wpc[w] = "work"
    /\ IF CtxDone
       THEN UNCHANGED <<results, sent, panicked>>
       ELSE /\ resultsClosed = 0
            /\ Len(results) < ResultsCap
            /\ results' = Append(results, Transform(wjob[w]))
            /\ sent' = Append(sent, Transform(wjob[w]))
            /\ UNCHANGED panicked
    /\ wpc' = [wpc EXCEPT ![w] = "select"]
    /\ UNCHANGED <<ext, retNil, ctl, ctxErr, jobs, jobsClosed, resultsClosed, wg, wjob, wgDone,
                   prod, coll, received, pcv, pipe>>

\* Worker.Start, lines 44-47: sleep, result := job * 2, w.results <- result
WorkerSend(w) ==
    /\ prog = "Run" /\ wpc[w] = "work"
    /\ \/ /\ resultsClosed = 0
          /\ Len(results) < ResultsCap
          /\ results' = Append(results, Transform(wjob[w]))
          /\ sent' = Append(sent, Transform(wjob[w]))
          /\ UNCHANGED panicked
       \/ /\ resultsClosed > 0
          /\ panicked' = panicked \cup {"send on closed results"}
          /\ UNCHANGED <<results, sent>>
    /\ wpc' = [wpc EXCEPT ![w] = "select"]
    /\ UNCHANGED <<ext, retNil, ctl, ctxErr, jobs, jobsClosed, resultsClosed, wg, wjob, wgDone,
                   prod, coll, received, pcv, pipe>>

\* collector goroutine, lines 75-79: one iteration of range results
RunCollectorRecv ==
    /\ prog = "Run" /\ collPc = "range"
    /\ results # <<>>
    /\ collected' = Append(collected, Head(results))
    /\ results' = ChanRecv(results)
    /\ UNCHANGED <<ext, retNil, ctl, ctxErr, jobs, jobsClosed, resultsClosed, wk, prod, collPc,
                   hist, pcv, pipe>>

\* collector goroutine: range results ends on the closed, drained channel
RunCollectorExit ==
    /\ prog = "Run" /\ collPc = "range"
    /\ results = <<>> /\ resultsClosed > 0
    /\ collPc' = "exited"
    /\ UNCHANGED <<ext, retNil, ctl, ctxErr, chans, wk, prod, collected, hist, pcv, pipe>>

\* close(jobs) as the producer's deferred call
CloseJobs ==
    /\ jobsClosed' = jobsClosed + 1
    /\ panicked' = IF jobsClosed > 0 THEN panicked \cup {"close of closed jobs"} ELSE panicked

\* the producer closes jobs on ctx.Done but goes on with its loop
RunProducerCtxDoneKeepsLooping ==
    /\ prog = "Run" /\ prodPc = "loop" /\ prodI <= NumJobs
    /\ CtxDone
    /\ jobsClosed = 0
    /\ CloseJobs
    /\ UNCHANGED <<ext, retNil, ctl, ctxErr, jobs, results, resultsClosed, wk, prod, coll,
                   received, sent, pcv, pipe>>

\* producer goroutine, case <-ctx.Done(): return (deferred close(jobs))
RunProducerCtxDone ==
    /\ prog = "Run" /\ prodPc = "loop" /\ prodI <= NumJobs
    /\ CtxDone
    /\ CloseJobs
    /\ prodPc' = "exited"
    /\ UNCHANGED <<ext, retNil, ctl, ctxErr, jobs, results, resultsClosed, wk, prodI, coll,
                   received, sent, pcv, pipe>>

\* producer goroutine, case jobs <- i
RunProducerSend ==
    /\ prog = "Run" /\ prodPc = "loop" /\ prodI <= NumJobs
    /\ \/ /\ jobsClosed = 0
          /\ Len(jobs) < JobsCap
          /\ jobs' = Append(jobs, prodI)
          /\ UNCHANGED panicked
       \/ /\ jobsClosed > 0
          /\ panicked' = panicked \cup {"send on closed jobs"}
          /\ UNCHANGED jobs
    /\ prodI' = prodI + 1
    /\ UNCHANGED <<ext, retNil, ctl, ctxErr, jobsClosed, results, resultsClosed, wk, prodPc, coll,
                   received, sent, pcv, pipe>>

\* producer goroutine: the loop is over, deferred close(jobs)
RunProducerFinish ==
    /\ prog = "Run" /\ prodPc = "loop" /\ prodI > NumJobs
    /\ CloseJobs
    /\ prodPc' = "exited"
    /\ UNCHANGED <<ext, retNil, ctl, ctxErr, jobs, results, resultsClosed, wk, prodI, coll,
                   received, sent, pcv, pipe>>

\* Run goes on to close(results) without waiting for the workers
RunWaitNoJoin ==
    /\ prog = "Run" /\ mainPc = "wait"
    /\ mainPc' = "close"
    /\ UNCHANGED <<ext, retNil, prog, retErr, numWorkers, ctxErr, chans, wk, prod, coll, hist, pcv, pipe>>

\* line 95: wg.Wait() returns when the counter is 0
RunWait ==
    /\ prog = "Run" /\ mainPc = "wait"
    /\ wg = 0
    /\ mainPc' = "close"
    /\ UNCHANGED <<ext, retNil, prog, retErr, numWorkers, ctxErr, chans, wk, prod, coll, hist, pcv, pipe>>

\* line 96: close(results)
RunCloseResults ==
    /\ prog = "Run" /\ mainPc = "close"
    /\ resultsClosed' = resultsClosed + 1
    /\ panicked' = IF resultsClosed > 0 THEN panicked \cup {"close of closed results"} ELSE panicked
    /\ mainPc' = "check"
    /\ UNCHANGED <<ext, retNil, prog, retErr, numWorkers, ctxErr, jobs, jobsClosed, results, wk, prod,
                   coll, received, sent, pcv, pipe>>

\* lines 99-103: if ctx.Err() == context.DeadlineExceeded
RunCheck ==
    /\ prog = "Run" /\ mainPc = "check"
    /\ retErr' = IF ctxErr = "DeadlineExceeded" THEN "processing timed out" ELSE "nil"
    /\ mainPc' = "defer"
    /\ UNCHANGED <<ext, retNil, prog, numWorkers, ctxErr, chans, wk, prod, coll, hist, pcv, pipe>>

\* line 57: defer cancel(), run as Run returns
RunDeferCancel ==
    /\ prog = "Run" /\ mainPc = "defer"
    /\ ctxErr' = CtxCancel("Canceled")
    /\ mainPc' = "returned"
    /\ UNCHANGED <<ext, retNil, prog, retErr, numWorkers, chans, wk, prod, coll, hist, pcv, pipe>>

RunNext ==
    \/ RunStart
    \/ RunDeadline
    \/ \E w \in Workers : WorkerCtxDone(w)
    \/ \E w \in Workers : WorkerRecv(w)
    \/ \E w \in Workers : WorkerJobsClosed(w)
    \/ \E w \in Workers : WorkerSend(w)
    \/ RunCollectorRecv
    \/ RunCollectorExit
    \/ RunProducerCtxDone
    \/ RunProducerSend
    \/ RunProducerFinish
    \/ RunWait
    \/ RunCloseResults
    \/ RunCheck
    \/ RunDeferCancel

(***************************************************************************)
(* processor.ProcessConcurrent (example6)                                  *)
(***************************************************************************)

\* processItem: ASCII a-z is upper-cased, every other byte is copied
UpperByte(b) == IF b >= 97 /\ b <= 122 THEN b - 32 ELSE b

processItem(item) == [i \in 1..Len(item) |-> UpperByte(item[i])]

\* ProcessConcurrent without the len(data) == 0 check of lines 375-377
PCStartNoCheck ==
    /\ prog = "ProcessConcurrent" /\ mainPc = "start"
    /\ LET n == IF numWorkers <= 0 THEN NumCPU ELSE numWorkers
       IN  /\ numWorkers' = n
           /\ wg' = n
           /\ wpc' = [w \in 1..n |-> "range"]
           /\ wjob' = [w \in 1..n |-> 0]
           /\ wgDone' = [w \in 1..n |-> 0]
           /\ prodPc' = "loop" /\ prodI' = 1
           /\ closerPc' = "wait"
           /\ result' = [i \in 1..Len(data) |-> <<>>]
           /\ mainPc' = "collect"
           /\ UNCHANGED <<retErr, retNil>>
    /\ UNCHANGED <<ext, prog, ctxErr, chans, coll, hist, data, pipe>>

\* lines 375-432: reject empty data, default the worker count, make the
\* channels, start the workers, the producer and the closer, make result
PCStart ==
    /\ prog = "ProcessConcurrent" /\ mainPc = "start"
    /\ IF Len(data) = 0
       THEN /\ retErr' = "ErrInvalidInput"
            /\ retNil' = TRUE
            /\ mainPc' = "returned"
            /\ UNCHANGED <<numWorkers, wk, prod, result, closerPc>>
       ELSE LET n == IF numWorkers <= 0 THEN NumCPU ELSE numWorkers
            IN  /\ numWorkers' = n
                /\ wg' = n
                /\ wpc' = [w \in 1..n |-> "range"]
                /\ wjob' = [w \in 1..n |-> 0]
                /\ wgDone' = [w \in 1..n |-> 0]
                /\ prodPc' = "loop" /\ prodI' = 1
                /\ closerPc' = "wait"
                /\ result' = [i \in 1..Len(data) |-> <<>>]
                /\ mainPc' = "collect"
                /\ UNCHANGED <<retErr, retNil>>
    /\ UNCHANGED <<ext, prog, ctxErr, chans, coll, hist, data, pipe>>

\* the caller's context is cancelled or its deadline passes
PCCtxTrip ==
    /\ prog = "ProcessConcurrent" /\ mainPc # "returned"
    /\ ctxErr = "nil"
    /\ \E err \in {"Canceled", "DeadlineExceeded"} : ctxErr' = CtxCancel(err)
    /\ UNCHANGED <<ext, retNil, ctl, chans, wk, prod, coll, hist, pcv, pipe>>

\* worker, for index := range jobs: an index is received
PCWorkerRecv(w) ==
    /\ prog = "ProcessConcurrent" /\ wpc[w] = "range"
    /\ jobs # <<>>
    /\ wjob' = [wjob EXCEPT ![w] = Head(jobs)]
    /\ jobs' = ChanRecv(jobs)
    /\ received' = Append(received, Head(jobs))
    /\ wpc' = [wpc EXCEPT ![w] = "select"]
    /\ UNCHANGED <<ext, retNil, ctl, ctxErr, jobsClosed, results, resultsClosed, wg, wgDone,
                   prod, coll, sent, panicked, pcv, pipe>>

\* worker, range jobs ends on the closed, drained channel (deferred wg.Done)
PCWorkerRangeEnd(w) ==
    /\ prog = "ProcessConcurrent" /\ wpc[w] = "range"
    /\ jobs = <<>> /\ jobsClosed > 0
    /\ wpc' = [wpc EXCEPT ![w] = "exited"]
    /\ WgDone(w)
    /\ UNCHANGED <<ext, retNil, ctl, ctxErr, chans, wjob, prod, coll, hist, pcv, pipe>>

\* worker, select case <-ctx.Done(): return (deferred wg.Done)
PCWorkerCtxDone(w) ==
    /\ prog = "ProcessConcurrent" /\ wpc[w] = "select"
    /\ CtxDone
    /\ wpc' = [wpc EXCEPT ![w] = "exited"]
    /\ WgDone(w)
    /\ UNCHANGED <<ext, retNil, ctl, ctxErr, chans, wjob, prod, coll, hist, pcv, pipe>>

\* worker, select default: results <- {index, processItem(data[index])}
PCWorkerSend(w) ==
    /\ prog = "ProcessConcurrent" /\ wpc[w] = "select"
    /\ ~CtxDone
    /\ LET r == [index |-> wjob[w], value |-> processItem(data[wjob[w]])]
       IN  \/ /\ resultsClosed = 0
              /\ Len(results) < Len(data)
              /\ results' = Append(results, r)
              /\ sent' = Append(sent, r)
              /\ UNCHANGED panicked
           \/ /\ resultsClosed > 0
              /\ panicked' = panicked \cup {"send on closed results"}
              /\ UNCHANGED <<results, sent>>
    /\ wpc' = [wpc EXCEPT ![w] = "range"]
    /\ UNCHANGED <<ext, retNil, ctl, ctxErr, jobs, jobsClosed, resultsClosed, wg, wjob, wgDone,
                   prod, coll, received, pcv, pipe>>

\* producer goroutine, case <-ctx.Done(): return (deferred close(jobs))
PCProducerCtxDone ==
    /\ prog = "ProcessConcurrent" /\ prodPc = "loop" /\ prodI <= Len(data)
    /\ CtxDone
    /\ CloseJobs
    /\ prodPc' = "exited"
    /\ UNCHANGED <<ext, retNil, ctl, ctxErr, jobs, results, resultsClosed, wk, prodI, coll,
                   received, sent, pcv, pipe>>

\* producer goroutine, case jobs <- i
PCProducerSend ==
    /\ prog = "ProcessConcurrent" /\ prodPc = "loop" /\ prodI <= Len(data)
    /\ \/ /\ jobsClosed = 0
          /\ Len(jobs) < Len(data)
          /\ jobs' = Append(jobs, prodI)
          /\ UNCHANGED panicked
       \/ /\ jobsClosed > 0
          /\ panicked' = panicked \cup {"send on closed jobs"}
          /\ UNCHANGED jobs
    /\ prodI' = prodI + 1
    /\ UNCHANGED <<ext, retNil, ctl, ctxErr, jobsClosed, results, resultsClosed, wk, prodPc, coll,
                   received, sent, pcv, pipe>>

\* producer goroutine: range data is over, deferred close(jobs)
PCProducerFinish ==
    /\ prog = "ProcessConcurrent" /\ prodPc = "loop" /\ prodI > Len(data)
    /\ CloseJobs
    /\ prodPc' = "exited"
    /\ UNCHANGED <<ext, retNil, ctl, ctxErr, jobs, results, resultsClosed, wk, prodI, coll,
                   received, sent, pcv, pipe>>

\* closer goroutine, lines 426-429: wg.Wait(); close(results)
PCCloser ==
    /\ prog = "ProcessConcurrent" /\ closerPc = "wait"
    /\ wg = 0
    /\ resultsClosed' = resultsClosed + 1
    /\ panicked' = IF resultsClosed > 0 THEN panicked \cup {"close of closed results"} ELSE panicked
    /\ closerPc' = "exited"
    /\ UNCHANGED <<ext, retNil, ctl, ctxErr, jobs, jobsClosed, results, wk, prod, coll,
                   received, sent, data, result, pipe>>

\* the collecting loop stores the values in the order they arrive
PCCollectByArrival ==
    /\ prog = "ProcessConcurrent" /\ mainPc = "collect"
    /\ results # <<>>
    /\ result' = [result EXCEPT ![Len(collected) + 1] = Head(results).value]
    /\ collected' = Append(collected, Head(results))
    /\ results' = ChanRecv(results)
    /\ UNCHANGED <<ext, retNil, ctl, ctxErr, jobs, jobsClosed, resultsClosed, wk, prod, collPc,
                   hist, data, closerPc, pipe>>

\* lines 433-435: result[r.index] = r.value
PCCollect ==
    /\ prog = "ProcessConcurrent" /\ mainPc = "collect"
    /\ results # <<>>
    /\ result' = [result EXCEPT ![Head(results).index] = Head(results).value]
    /\ collected' = Append(collected, Head(results))
    /\ results' = ChanRecv(results)
    /\ UNCHANGED <<ext, retNil, ctl, ctxErr, jobs, jobsClosed, resultsClosed, wk, prod, collPc,
                   hist, data, closerPc, pipe>>

\* line 437: range results is over, return result, nil
PCReturn ==
    /\ prog = "ProcessConcurrent" /\ mainPc = "collect"
    /\ results = <<>> /\ resultsClosed > 0
    /\ retErr' = "nil"
    /\ retNil' = FALSE
    /\ mainPc' = "returned"
    /\ UNCHANGED <<ext, prog, numWorkers, ctxErr, chans, wk, prod, coll, hist, pcv, pipe>>

PCNext ==
    \/ PCStart
    \/ PCCtxTrip
    \/ \E w \in Workers : PCWorkerRecv(w)
    \/ \E w \in Workers : PCWorkerRangeEnd(w)
    \/ \E w \in Workers : PCWorkerCtxDone(w)
    \/ \E w \in Workers : PCWorkerSend(w)
    \/ PCProducerCtxDone
    \/ PCProducerSend
    \/ PCProducerFinish
    \/ PCCloser
    \/ PCCollect
    \/ PCReturn

(***************************************************************************)
(* example2.RunPipeline: numbers, squares and results are unbuffered, so   *)
(* a send and the matching receive are one step.                           *)
(***************************************************************************)

\* lines 109-152: context, channels and the three stage goroutines
PipeStart ==
    /\ prog = "RunPipeline" /\ mainPc = "start"
    /\ genPc' = "select" /\ genI' = 1
    /\ sqPc' = "range"
    /\ incPc' = "range"
    /\ mainPc' = "collect"
    /\ UNCHANGED <<ext, retNil, prog, retErr, numWorkers, ctxErr, chans, wk, prod, coll, hist, pcv,
                   sqVal, incVal, numbersClosed, squaresClosed>>

\* the 2 s timer of context.WithTimeout fires
PipeDeadline ==
    /\ prog = "RunPipeline" /\ mainPc # "returned"
    /\ ctxErr = "nil"
    /\ ctxErr' = CtxCancel("DeadlineExceeded")
    /\ UNCHANGED <<ext, retNil, ctl, chans, wk, prod, coll, hist, pcv, pipe>>

\* generator, case <-ctx.Done(): return (deferred close(numbers))
GenCtxDone ==
    /\ prog = "RunPipeline" /\ genPc = "select" /\ genI <= PipelineCount
    /\ CtxDone
    /\ numbersClosed' = numbersClosed + 1
    /\ genPc' = "exited"
    /\ UNCHANGED <<ext, retNil, ctl, ctxErr, chans, wk, prod, coll, hist, pcv,
                   genI, sqPc, sqVal, incPc, incVal, squaresClosed>>

\* the generator counting in steps of two
GenSendSkip ==
    /\ prog = "RunPipeline" /\ genPc = "select" /\ genI <= PipelineCount
    /\ sqPc = "range" /\ numbersClosed = 0
    /\ sqVal' = genI
    /\ sqPc' = "select"
    /\ genI' = genI + 2
    /\ UNCHANGED <<ext, retNil, ctl, ctxErr, chans, wk, prod, coll, hist, pcv,
                   genPc, incPc, incVal, numbersClosed, squaresClosed>>

\* generator, case numbers <- i, received by the square stage's range
GenSend ==
    /\ prog = "RunPipeline" /\ genPc = "select" /\ genI <= PipelineCount
    /\ sqPc = "range" /\ numbersClosed = 0
    /\ sqVal' = genI
    /\ sqPc' = "select"
    /\ genI' = genI + 1
    /\ UNCHANGED <<ext, retNil, ctl, ctxErr, chans, wk, prod, coll, hist, pcv,
                   genPc, incPc, incVal, numbersClosed, squaresClosed>>

\* generator: the loop is over, deferred close(numbers)
GenFinish ==
    /\ prog = "RunPipeline" /\ genPc = "select" /\ genI > PipelineCount
    /\ numbersClosed' = numbersClosed + 1
    /\ genPc' = "exited"
    /\ UNCHANGED <<ext, retNil, ctl, ctxErr, chans, wk, prod, coll, hist, pcv,
                   genI, sqPc, sqVal, incPc, incVal, squaresClosed>>

\* the square stage leaves its loop and closes squares while numbers is still open
SqRangeEndEarly ==
    /\ prog = "RunPipeline" /\ sqPc = "range"
    /\ squaresClosed' = squaresClosed + 1
    /\ sqPc' = "exited"
    /\ UNCHANGED <<ext, retNil, ctl, ctxErr, chans, wk, prod, coll, hist, pcv,
                   genPc, genI, sqVal, incPc, incVal, numbersClosed>>

\* square stage: range numbers ends, deferred close(squares)
SqRangeEnd ==
    /\ prog = "RunPipeline" /\ sqPc = "range"
    /\ numbersClosed > 0
    /\ squaresClosed' = squaresClosed + 1
    /\ sqPc' = "exited"
    /\ UNCHANGED <<ext, retNil, ctl, ctxErr, chans, wk, prod, coll, hist, pcv,
                   genPc, genI, sqVal, incPc, incVal, numbersClosed>>

\* the square stage's select has no ctx.Done case that returns
SqCtxDoneSpin ==
    /\ prog = "RunPipeline" /\ sqPc = "select"
    /\ CtxDone
    /\ UNCHANGED vars

\* square stage, case <-ctx.Done(): return (deferred close(squares))
SqCtxDone ==
    /\ prog = "RunPipeline" /\ sqPc = "select"
    /\ CtxDone
    /\ squaresClosed' = squaresClosed + 1
    /\ sqPc' = "exited"
    /\ UNCHANGED <<ext, retNil, ctl, ctxErr, chans, wk, prod, coll, hist, pcv,
                   genPc, genI, sqVal, incPc, incVal, numbersClosed>>

\* the square stage sends n + n
SqSendDouble ==
    /\ prog = "RunPipeline" /\ sqPc = "select"
    /\ incPc = "range" /\ squaresClosed = 0
    /\ incVal' = sqVal + sqVal
    /\ incPc' = "select"
    /\ sqPc' = "range"
    /\ UNCHANGED <<ext, retNil, ctl, ctxErr, chans, wk, prod, coll, hist, pcv,
                   genPc, genI, sqVal, numbersClosed, squaresClosed>>

\* square stage, case squares <- n * n, received by the +1 stage's range
SqSend ==
    /\ prog = "RunPipeline" /\ sqPc = "select"
    /\ incPc = "range" /\ squaresClosed = 0
    /\ incVal' = sqVal * sqVal
    /\ incPc' = "select"
    /\ sqPc' = "range"
    /\ UNCHANGED <<ext, retNil, ctl, ctxErr, chans, wk, prod, coll, hist, pcv,
                   genPc, genI, sqVal, numbersClosed, squaresClosed>>

\* +1 stage: range squares ends, deferred close(results)
IncRangeEnd ==
    /\ prog = "RunPipeline" /\ incPc = "range"
    /\ squaresClosed > 0
    /\ resultsClosed' = resultsClosed + 1
    /\ incPc' = "exited"
    /\ UNCHANGED <<ext, retNil, ctl, ctxErr, jobs, jobsClosed, results, wk, prod, coll, hist, pcv,
                   genPc, genI, sqPc, sqVal, incVal, numbersClosed, squaresClosed>>

\* +1 stage, case <-ctx.Done(): return (deferred close(results))
IncCtxDone ==
    /\ prog = "RunPipeline" /\ incPc = "select"
    /\ CtxDone
    /\ resultsClosed' = resultsClosed + 1
    /\ incPc' = "exited"
    /\ UNCHANGED <<ext, retNil, ctl, ctxErr, jobs, jobsClosed, results, wk, prod, coll, hist, pcv,
                   genPc, genI, sqPc, sqVal, incVal, numbersClosed, squaresClosed>>

\* +1 stage, case results <- s + 1, received by the collecting loop
IncSend ==
    /\ prog = "RunPipeline" /\ incPc = "select"
    /\ mainPc = "collect" /\ resultsClosed = 0
    /\ collected' = Append(collected, incVal + 1)
    /\ sent' = Append(sent, incVal + 1)
    /\ incPc' = "range"
    /\ UNCHANGED <<ext, retNil, ctl, ctxErr, chans, wk, prod, collPc, received, panicked, pcv,
                   genPc, genI, sqPc, sqVal, incVal, numbersClosed, squaresClosed>>

\* RunPipeline reporting a deadline that fired as an error
PipeReturnTimeout ==
    /\ prog = "RunPipeline" /\ mainPc = "collect"
    /\ resultsClosed > 0
    /\ retErr' = IF ctxErr = "DeadlineExceeded" THEN "timeout" ELSE "nil"
    /\ mainPc' = "defer"
    /\ UNCHANGED <<ext, retNil, prog, numWorkers, ctxErr, chans, wk, prod, coll, hist, pcv, pipe>>

\* lines 155-159: range results is over, return nil
PipeReturn ==
    /\ prog = "RunPipeline" /\ mainPc = "collect"
    /\ resultsClosed > 0
    /\ retErr' = "nil"
    /\ mainPc' = "defer"
    /\ UNCHANGED <<ext, retNil, prog, numWorkers, ctxErr, chans, wk, prod, coll, hist, pcv, pipe>>

\* line 110: defer cancel(), run as RunPipeline returns
PipeDeferCancel ==
    /\ prog = "RunPipeline" /\ mainPc = "defer"
    /\ ctxErr' = CtxCancel("Canceled")
    /\ mainPc' = "returned"
    /\ UNCHANGED <<ext, retNil, prog, retErr, numWorkers, chans, wk, prod, coll, hist, pcv, pipe>>

PipeNext ==
    \/ PipeStart
    \/ PipeDeadline
    \/ GenCtxDone
    \/ GenSend
    \/ GenFinish
    \/ SqRangeEnd
    \/ SqCtxDone
    \/ SqSend
    \/ IncRangeEnd
    \/ IncCtxDone
    \/ IncSend
    \/ PipeReturn
    \/ PipeDeferCancel

(***************************************************************************)
(* processor.Process and processor.ProcessBatch (example6)                 *)
(***************************************************************************)

\* the caller's context is cancelled or its deadline passes
SeqCtxTrip ==
    /\ prog \in {"Process", "ProcessBatch"} /\ mainPc # "returned"
    /\ ctxErr = "nil"
    /\ \E err \in {"Canceled", "DeadlineExceeded"} : ctxErr' = CtxCancel(err)
    /\ UNCHANGED <<ext, retNil, ctl, chans, wk, prod, coll, hist, pcv, pipe>>

\* Process without the len(data) == 0 check of lines 316-318
ProcStartNoCheck ==
    /\ prog = "Process" /\ mainPc = "start"
    /\ result' = [i \in 1..Len(data) |-> <<>>]
    /\ procI' = 1
    /\ mainPc' = "loop"
    /\ UNCHANGED <<retErr, retNil>>
    /\ UNCHANGED <<prog, numWorkers, ctxErr, chans, wk, prod, coll, hist, data, closerPc,
                   pipe, processed, batchSize, batchEnd, storev, more>>

\* Process, lines 316-321: reject empty data, else make result
ProcStart ==
    /\ prog = "Process" /\ mainPc = "start"
    /\ IF Len(data) = 0
       THEN /\ retErr' = "ErrInvalidInput"
            /\ retNil' = TRUE
            /\ mainPc' = "returned"
            /\ UNCHANGED <<result, procI>>
       ELSE /\ result' = [i \in 1..Len(data) |-> <<>>]
            /\ procI' = 1
            /\ mainPc' = "loop"
            /\ UNCHANGED <<retErr, retNil>>
    /\ UNCHANGED <<prog, numWorkers, ctxErr, chans, wk, prod, coll, hist, data, closerPc,
                   pipe, processed, batchSize, batchEnd, storev, more>>

\* Process returning what it has filled in so far along with ctx.Err()
ProcCancelledPartial ==
    /\ prog = "Process" /\ mainPc = "loop" /\ procI <= Len(data)
    /\ CtxDone
    /\ retErr' = ctxErr
    /\ retNil' = FALSE
    /\ mainPc' = "returned"
    /\ UNCHANGED <<ext, prog, numWorkers, ctxErr, chans, wk, prod, coll, hist, pcv, pipe>>

\* Process, case <-ctx.Done(): return nil, ctx.Err()
ProcCancelled ==
    /\ prog = "Process" /\ mainPc = "loop" /\ procI <= Len(data)
    /\ CtxDone
    /\ retErr' = ctxErr
    /\ retNil' = TRUE
    /\ mainPc' = "returned"
    /\ UNCHANGED <<ext, prog, numWorkers, ctxErr, chans, wk, prod, coll, hist, pcv, pipe>>

\* Process, default: result[i] = p.processItem(item)
ProcItem ==
    /\ prog = "Process" /\ mainPc = "loop" /\ procI <= Len(data)
    /\ ~CtxDone
    /\ result' = [result EXCEPT ![procI] = processItem(data[procI])]
    /\ procI' = procI + 1
    /\ UNCHANGED <<retNil, ctl, ctxErr, chans, wk, prod, coll, hist, data, closerPc, pipe,
                   processed, batchSize, batchEnd, storev, more>>

\* Process, line 333: return result, nil
ProcReturn ==
    /\ prog = "Process" /\ mainPc = "loop" /\ procI > Len(data)
    /\ retErr' = "nil"
    /\ retNil' = FALSE
    /\ mainPc' = "returned"
    /\ UNCHANGED <<ext, prog, numWorkers, ctxErr, chans, wk, prod, coll, hist, pcv, pipe>>

\* ProcessBatch, lines 338-348: reject empty data, default the batch size,
\* make result, processed := 0
PBStart ==
    /\ prog = "ProcessBatch" /\ mainPc = "start"
    /\ IF Len(data) = 0
       THEN /\ retErr' = "ErrInvalidInput"
            /\ retNil' = TRUE
            /\ mainPc' = "returned"
            /\ UNCHANGED <<result, processed, batchSize>>
       ELSE /\ batchSize' = IF batchSize <= 0 THEN DefaultBatch ELSE batchSize
            /\ result' = [i \in 1..Len(data) |-> <<>>]
            /\ processed' = 0
            /\ mainPc' = "select"
            /\ UNCHANGED <<retErr, retNil>>
    /\ UNCHANGED <<prog, numWorkers, ctxErr, chans, wk, prod, coll, hist, data, closerPc,
                   pipe, procI, batchEnd, storev, more>>

\* ProcessBatch, case <-ctx.Done(): return nil, ctx.Err()
PBCancelled ==
    /\ prog = "ProcessBatch" /\ mainPc = "select" /\ processed < Len(data)
    /\ CtxDone
    /\ retErr' = ctxErr
    /\ retNil' = TRUE
    /\ mainPc' = "returned"
    /\ UNCHANGED <<ext, prog, numWorkers, ctxErr, chans, wk, prod, coll, hist, pcv, pipe>>

\* ProcessBatch, default, lines 356-362: end := min(processed + batchSize,
\* len(data)); i := processed (procI is i + 1)
PBBatchBegin ==
    /\ prog = "ProcessBatch" /\ mainPc = "select" /\ processed < Len(data)
    /\ ~CtxDone
    /\ batchEnd' = IF processed + batchSize > Len(data) THEN Len(data) ELSE processed + batchSize
    /\ procI' = processed + 1
    /\ mainPc' = "batch"
    /\ UNCHANGED <<retNil, prog, retErr, numWorkers, ctxErr, chans, wk, prod, coll, hist, pcv,
                   pipe, processed, batchSize, storev, more>>

\* the inner loop of ProcessBatch stepping by two
PBItemSkip ==
    /\ prog = "ProcessBatch" /\ mainPc = "batch" /\ procI <= batchEnd
    /\ result' = [result EXCEPT ![procI] = processItem(data[procI])]
    /\ procI' = procI + 2
    /\ UNCHANGED <<retNil, ctl, ctxErr, chans, wk, prod, coll, hist, data, closerPc, pipe,
                   processed, batchSize, batchEnd, storev, more>>

\* ProcessBatch, line 363: result[i] = p.processItem(data[i])
PBItem ==
    /\ prog = "ProcessBatch" /\ mainPc = "batch" /\ procI <= batchEnd
    /\ result' = [result EXCEPT ![procI] = processItem(data[procI])]
    /\ procI' = procI + 1
    /\ UNCHANGED <<retNil, ctl, ctxErr, chans, wk, prod, coll, hist, data, closerPc, pipe,
                   processed, batchSize, batchEnd, storev, more>>

\* ProcessBatch, line 366: the batch is over, processed = end
PBBatchEnd ==
    /\ prog = "ProcessBatch" /\ mainPc = "batch" /\ procI > batchEnd
    /\ processed' = batchEnd
    /\ mainPc' = "select"
    /\ UNCHANGED <<retNil, prog, retErr, numWorkers, ctxErr, chans, wk, prod, coll, hist, pcv,
                   pipe, procI, batchSize, batchEnd, storev, more>>

\* ProcessBatch, line 370: return result, nil
PBReturn ==
    /\ prog = "ProcessBatch" /\ mainPc = "select" /\ processed >= Len(data)
    /\ retErr' = "nil"
    /\ retNil' = FALSE
    /\ mainPc' = "returned"
    /\ UNCHANGED <<ext, prog, numWorkers, ctxErr, chans, wk, prod, coll, hist, pcv, pipe>>

SeqNext ==
    \/ SeqCtxTrip
    \/ ProcStart
    \/ ProcCancelled
    \/ ProcItem
    \/ ProcReturn
    \/ PBStart
    \/ PBCancelled
    \/ PBBatchBegin
    \/ PBItem
    \/ PBBatchEnd
    \/ PBReturn

(***************************************************************************)
(* main (main.go): flag.Parse over the command line, then the examples the *)
(* flags select, in the order of the if statements.                        *)
(***************************************************************************)

\* lines 20-34 and 59-163: the flags in the order main tests them, and what
\* main calls when the flag is set
FlagTable == <<
    [name |-> "example1",             runs |-> <<"example1.Run">>],
    [name |-> "example2",             runs |-> <<"example2.Run">>],
    [name |-> "example2-pipeline",    runs |-> <<"example2.RunPipeline">>],
    [name |-> "example3",             runs |-> <<"example3.Run", "example3.RunErrorWrapping">>],
    [name |-> "example4",             runs |-> <<"example4.Run">>],
    [name |-> "example4-benchmark",   runs |-> <<"example4.RunBenchmark">>],
    [name |-> "example4-integration", runs |-> <<"example4.RunIntegration">>],
    [name |-> "example5",             runs |-> <<"example5.Run">>],
    [name |-> "example5-integration", runs |-> <<"example5.RunIntegration">>],
    [name |-> "example6",             runs |-> <<"example6.Run">>],
    [name |-> "example6-benchmark",   runs |-> <<"example6.RunBenchmark">>],
    [name |-> "example7",             runs |-> <<"example7.Run">>],
    [name |-> "example7-benchmark",   runs |-> <<"example7.RunBenchmark">>],
    [name |-> "example8",             runs |-> <<"example8.Run">>],
    [name |-> "example8-benchmark",   runs |-> <<"example8.RunBenchmark">>] >>

FlagNames == { FlagTable[i].name : i \in DOMAIN FlagTable }

\* flag.Parse: the arguments are read from the left; the first one that does
\* not start with a dash ends the parsing, a lone "--" ends it too, a name
\* that is no flag is an error, and a boolean flag that is named is set.
\* The result is the set of flags set and whether an error was met.
RECURSIVE ParseFlags(_, _)
ParseFlags(as, set) ==
    IF as = <<>> THEN [set |-> set, ok |-> TRUE]
    ELSE LET a == Head(as)
         IN  IF a.dashes = 0 THEN [set |-> set, ok |-> TRUE]
             ELSE IF a.dashes = 2 /\ a.name = "" THEN [set |-> set, ok |-> TRUE]
             ELSE IF a.name \notin FlagNames THEN [set |-> set, ok |-> FALSE]
             ELSE ParseFlags(Tail(as), set \cup {a.name})

\* line 35: flag.Parse(); the command line's flag set exits with status 2 on
\* an error
MainParse ==
    /\ prog = "main" /\ mainPc = "start"
    /\ LET p == ParseFlags(args, {})
       IN  IF p.ok
           THEN /\ flagSet' = p.set
                /\ mainPc' = "check"
                /\ UNCHANGED exitCode
           ELSE /\ exitCode' = 2
                /\ mainPc' = "exited"
                /\ UNCHANGED flagSet
    /\ UNCHANGED <<seqv, storev, cntv, srvv, retNil, prog, retErr, numWorkers, ctxErr, chans, wk, prod, coll,
                   hist, pcv, pipe, args, runI, ran>>

\* lines 38-56: no flag is set: print the usage, os.Exit(1)
MainUsage ==
    /\ prog = "main" /\ mainPc = "check"
    /\ flagSet = {}
    /\ exitCode' = 1
    /\ mainPc' = "exited"
    /\ UNCHANGED <<seqv, storev, cntv, srvv, retNil, prog, retErr, numWorkers, ctxErr, chans, wk, prod, coll,
                   hist, pcv, pipe, args, flagSet, runI, ran>>

\* line 38: some flag is set, go on to the if statements
MainSelected ==
    /\ prog = "main" /\ mainPc = "check"
    /\ flagSet # {}
    /\ runI' = 1
    /\ mainPc' = "run"
    /\ UNCHANGED <<seqv, storev, cntv, srvv, retNil, prog, retErr, numWorkers, ctxErr, chans, wk, prod, coll,
                   hist, pcv, pipe, args, flagSet, ran, exitCode>>

\* lines 59-163: one if statement: call the example's functions if its flag
\* is set (an error they return is printed and main goes on)
MainRunExample ==
    /\ prog = "main" /\ mainPc = "run"
    /\ runI <= Len(FlagTable)
    /\ ran' = IF FlagTable[runI].name \in flagSet THEN ran \o FlagTable[runI].runs ELSE ran
    /\ runI' = runI + 1
    /\ UNCHANGED <<seqv, storev, cntv, srvv, retNil, ctl, ctxErr, chans, wk, prod, coll,
                   hist, pcv, pipe, args, flagSet, exitCode>>

\* line 164: main returns, the process exits with status 0
MainReturn ==
    /\ prog = "main" /\ mainPc = "run"
    /\ runI > Len(FlagTable)
    /\ mainPc' = "exited"
    /\ UNCHANGED <<seqv, storev, cntv, srvv, retNil, prog, retErr, numWorkers, ctxErr, chans, wk, prod, coll,
                   hist, pcv, pipe, mainv>>

MainNext ==
    \/ MainParse
    \/ MainUsage
    \/ MainSelected
    \/ MainRunExample
    \/ MainReturn

(***************************************************************************)
(* example8.concurrentCounter (example2.go:212-229): n goroutines, each    *)
(* count++ under mu; count++ is a read of count and a write of the value   *)
(* read plus one.                                                          *)
(***************************************************************************)

\* the goroutines started so far
Goroutines == DOMAIN reg

\* lines 218-226: one round of the loop: wg.Add(1) and the go statement
CCSpawn ==
    /\ prog = "concurrentCounter" /\ mainPc = "start"
    /\ ccI < ccN
    /\ wg' = wg + 1
    /\ wpc' = Append(wpc, "lock")
    /\ wgDone' = Append(wgDone, 0)
    /\ reg' = Append(reg, 0)
    /\ ccI' = ccI + 1
    /\ UNCHANGED <<seqv, storev, mainv, srvv, retNil, ctl, ctxErr, chans, wjob, prod, coll, hist,
                   pcv, pipe, ccN, count, mu, ccRet>>

\* mu.Lock() that does not wait for the holder
CCLockNoWait(g) ==
    /\ prog = "concurrentCounter" /\ wpc[g] = "lock"
    /\ mu' = g
    /\ wpc' = [wpc EXCEPT ![g] = "read"]
    /\ UNCHANGED <<seqv, storev, mainv, srvv, retNil, ctl, ctxErr, chans, wg, wjob, wgDone, prod,
                   coll, hist, pcv, pipe, ccN, ccI, count, reg, ccRet>>

\* line 222: mu.Lock()
CCLock(g) ==
    /\ prog = "concurrentCounter" /\ wpc[g] = "lock"
    /\ mu = 0
    /\ mu' = g
    /\ wpc' = [wpc EXCEPT ![g] = "read"]
    /\ UNCHANGED <<seqv, storev, mainv, srvv, retNil, ctl, ctxErr, chans, wg, wjob, wgDone, prod,
                   coll, hist, pcv, pipe, ccN, ccI, count, reg, ccRet>>

\* line 223, count++: read count
CCRead(g) ==
    /\ prog = "concurrentCounter" /\ wpc[g] = "read"
    /\ reg' = [reg EXCEPT ![g] = count]
    /\ wpc' = [wpc EXCEPT ![g] = "write"]
    /\ UNCHANGED <<seqv, storev, mainv, srvv, retNil, ctl, ctxErr, chans, wg, wjob, wgDone, prod,
                   coll, hist, pcv, pipe, ccN, ccI, count, mu, ccRet>>

\* line 223, count++: write count
CCWrite(g) ==
    /\ prog = "concurrentCounter" /\ wpc[g] = "write"
    /\ count' = reg[g] + 1
    /\ wpc' = [wpc EXCEPT ![g] = "unlock"]
    /\ UNCHANGED <<seqv, storev, mainv, srvv, retNil, ctl, ctxErr, chans, wg, wjob, wgDone, prod,
                   coll, hist, pcv, pipe, ccN, ccI, mu, reg, ccRet>>

\* line 224: mu.Unlock()
CCUnlock(g) ==
    /\ prog = "concurrentCounter" /\ wpc[g] = "unlock"
    /\ mu' = 0
    /\ wpc' = [wpc EXCEPT ![g] = "return"]
    /\ UNCHANGED <<seqv, storev, mainv, srvv, retNil, ctl, ctxErr, chans, wg, wjob, wgDone, prod,
                   coll, hist, pcv, pipe, ccN, ccI, count, reg, ccRet>>

\* line 221: the deferred wg.Done(), as the goroutine returns
CCDone(g) ==
    /\ prog = "concurrentCounter" /\ wpc[g] = "return"
    /\ WgDone(g)
    /\ wpc' = [wpc EXCEPT ![g] = "exited"]
    /\ UNCHANGED <<seqv, storev, mainv, srvv, retNil, ctl, ctxErr, chans, wjob, prod,
                   coll, hist, pcv, pipe, cntv>>

\* line 227: the loop is over and wg.Wait() returns
CCWait ==
    /\ prog = "concurrentCounter" /\ mainPc = "start"
    /\ ccI >= ccN
    /\ wg = 0
    /\ mainPc' = "waited"
    /\ UNCHANGED <<seqv, storev, more, retNil, prog, retErr, numWorkers, ctxErr, chans, wk, prod,
                   coll, hist, pcv, pipe>>

\* line 228: return count
CCReturn ==
    /\ prog = "concurrentCounter" /\ mainPc = "waited"
    /\ ccRet' = count
    /\ mainPc' = "returned"
    /\ UNCHANGED <<seqv, storev, mainv, srvv, retNil, prog, retErr, numWorkers, ctxErr, chans, wk,
                   prod, coll, hist, pcv, pipe, ccN, ccI, count, mu, reg>>

CCNext ==
    \/ CCSpawn
    \/ \E g \in Goroutines : CCLock(g)
    \/ \E g \in Goroutines : CCRead(g)
    \/ \E g \in Goroutines : CCWrite(g)
    \/ \E g \in Goroutines : CCUnlock(g)
    \/ \E g \in Goroutines : CCDone(g)
    \/ CCWait
    \/ CCReturn

(***************************************************************************)
(* example8.Run (example2.go:231-291): an HTTP server in a goroutine, one  *)
(* request to it, then the shutdown.  The request creation of line 263     *)
(* has constant, valid arguments and cannot fail; srv.Shutdown is given a  *)
(* context that is never done.  The call of concurrentCounter(100) on      *)
(* line 280 is one step here.                                              *)
(***************************************************************************)

\* lines 247-254: make(done) and the go statement
E8Start ==
    /\ prog = "example8.Run" /\ mainPc = "start"
    /\ srvPc' = "listen"
    /\ mainPc' = "sleep"
    /\ UNCHANGED <<seqv, storev, mainv, cntv, retNil, prog, retErr, numWorkers, ctxErr, chans, wk,
                   prod, coll, hist, pcv, pipe, shutdown, doneClosed>>

\* server goroutine, line 250: ListenAndServe binds :8081 and serves
E8Listen ==
    /\ prog = "example8.Run" /\ srvPc = "listen"
    /\ ~shutdown
    /\ srvPc' = "serving"
    /\ UNCHANGED <<seqv, storev, mainv, cntv, retNil, ctl, ctxErr, chans, wk,
                   prod, coll, hist, pcv, pipe, shutdown, doneClosed>>

\* server goroutine, lines 250-253: ListenAndServe cannot bind :8081 (the
\* port is taken); the error is logged, close(done)
E8ListenFails ==
    /\ prog = "example8.Run" /\ srvPc = "listen"
    /\ ~shutdown
    /\ doneClosed' = doneClosed + 1
    /\ srvPc' = "exited"
    /\ UNCHANGED <<seqv, storev, mainv, cntv, retNil, ctl, ctxErr, chans, wk,
                   prod, coll, hist, pcv, pipe, shutdown>>

\* server goroutine, lines 250-253: after srv.Shutdown, ListenAndServe
\* returns http.ErrServerClosed; close(done)
E8ServerClosed ==
    /\ prog = "example8.Run" /\ srvPc \in {"listen", "serving"}
    /\ shutdown
    /\ doneClosed' = doneClosed + 1
    /\ srvPc' = "exited"
    /\ UNCHANGED <<seqv, storev, mainv, cntv, retNil, ctl, ctxErr, chans, wk,
                   prod, coll, hist, pcv, pipe, shutdown>>

\* lines 257-266: time.Sleep, the request context, the request
E8Sleep ==
    /\ prog = "example8.Run" /\ mainPc = "sleep"
    /\ mainPc' = "request"
    /\ UNCHANGED <<seqv, storev, more, retNil, prog, retErr, numWorkers, ctxErr, chans, wk,
                   prod, coll, hist, pcv, pipe>>

\* lines 267-270: http.DefaultClient.Do fails (nothing listens yet, or the
\* 200 ms of the request context are over): return the error; the deferred
\* cancel() runs
E8RequestFails ==
    /\ prog = "example8.Run" /\ mainPc = "request"
    /\ retErr' = "http request failed"
    /\ ctxErr' = CtxCancel("Canceled")
    /\ mainPc' = "returned"
    /\ UNCHANGED <<seqv, storev, more, retNil, prog, numWorkers, chans, wk,
                   prod, coll, hist, pcv, pipe>>

\* line 267: http.DefaultClient.Do gets a response: from this server, or
\* from the process that holds the port when this server could not bind it
E8Request ==
    /\ prog = "example8.Run" /\ mainPc = "request"
    /\ srvPc \in {"serving", "exited"}
    /\ mainPc' = "decode"
    /\ UNCHANGED <<seqv, storev, more, retNil, prog, retErr, numWorkers, ctxErr, chans, wk,
                   prod, coll, hist, pcv, pipe>>

\* lines 274-276: the body is not the JSON of a User, or the request context
\* ends while it is read: return the error; the deferred resp.Body.Close()
\* and cancel() run
E8DecodeFails ==
    /\ prog = "example8.Run" /\ mainPc = "decode"
    /\ retErr' = "json decode failed"
    /\ ctxErr' = CtxCancel("Canceled")
    /\ mainPc' = "returned"
    /\ UNCHANGED <<seqv, storev, more, retNil, prog, numWorkers, chans, wk,
                   prod, coll, hist, pcv, pipe>>

\* lines 273-281: the body decodes; concurrentCounter(100)
E8Decode ==
    /\ prog = "example8.Run" /\ mainPc = "decode"
    /\ mainPc' = "shutdown"
    /\ UNCHANGED <<seqv, storev, more, retNil, prog, retErr, numWorkers, ctxErr, chans, wk,
                   prod, coll, hist, pcv, pipe>>

\* lines 284-286: srv.Shutdown(context.Background()) returns nil
E8Shutdown ==
    /\ prog = "example8.Run" /\ mainPc = "shutdown"
    /\ shutdown' = TRUE
    /\ mainPc' = "done"
    /\ UNCHANGED <<seqv, storev, mainv, cntv, retNil, prog, retErr, numWorkers, ctxErr, chans, wk,
                   prod, coll, hist, pcv, pipe, srvPc, doneClosed>>

\* lines 287-290: <-done, return nil; the deferred resp.Body.Close() and
\* cancel() run
E8Return ==
    /\ prog = "example8.Run" /\ mainPc = "done"
    /\ doneClosed > 0
    /\ retErr' = "nil"
    /\ ctxErr' = CtxCancel("Canceled")
    /\ mainPc' = "returned"
    /\ UNCHANGED <<seqv, storev, more, retNil, prog, numWorkers, chans, wk,
                   prod, coll, hist, pcv, pipe>>

E8Next ==
    \/ E8Start
    \/ E8Listen
    \/ E8ListenFails
    \/ E8ServerClosed
    \/ E8Sleep
    \/ E8RequestFails
    \/ E8Request
    \/ E8DecodeFails
    \/ E8Decode
    \/ E8Shutdown
    \/ E8Return

Next == RunNext \/ PCNext \/ PipeNext \/ SeqNext \/ MainNext \/ CCNext \/ E8Next

Spec == Init /\ [][Next]_vars

\* Process and ProcessBatch run on the caller's goroutine, which keeps running;
\* nothing is assumed about when, or whether, the context is cancelled
SeqStep ==
    \/ ProcStart \/ ProcCancelled \/ ProcItem \/ ProcReturn
    \/ PBStart \/ PBCancelled \/ PBBatchBegin \/ PBItem \/ PBBatchEnd \/ PBReturn

SeqFairSpec == Spec /\ WF_vars(SeqStep)

(***************************************************************************)
(* The in-memory stores: example4.UserService (map[int]*User) and          *)
(* example5.taskService (map[string]*Task).  The maps hold pointers, so    *)
(* the entities live in heap and the caller, who keeps the pointers, can   *)
(* write to an entity before and after it is stored.  Task.Description is  *)
(* left out: the service never reads or writes it.  example3.UserService   *)
(* is a third store of the same shape, with CreateUser and GetUser only    *)
(* and with its errors wrapped in ProcessingError and ValidationError.     *)
(***************************************************************************)

\* the pointers the caller holds (0 is the nil pointer)
Addrs == {1, 2}

\* field values the caller uses; the first of each is Go's zero value
UserIDs  == {0, 1}
Names    == {"", "a"}
Ages     == {MinAge, MinAge - 1, MaxAge, MaxAge + 1}
TaskIDs  == {"", "1"}
Titles   == {"", "t"}
Statuses == {"", "pending"}

\* the stores of User: example4's and example3's
UserProgs == {"UserService", "example3.UserService"}

StoreProgs == UserProgs \cup {"taskService"}

ZeroKey == IF prog = "taskService" THEN "" ELSE 0

ZeroEntity ==
    IF prog = "taskService"
    THEN [ID |-> "", Title |-> "", Status |-> "", CreatedAt |-> 0, UpdatedAt |-> 0]
    ELSE [ID |-> 0, Name |-> "", Age |-> 0, CreatedAt |-> 0]

\* NewUserService() / NewTaskService(), and the caller's entities not yet filled in
StoreInit ==
    /\ prog \in StoreProgs
    /\ mainPc = "start"
    /\ retErr = "nil"
    /\ numWorkers = 0
    /\ ctxErr = "nil"
    /\ jobs = <<>> /\ jobsClosed = 0
    /\ results = <<>> /\ resultsClosed = 0
    /\ wg = 0
    /\ wpc = <<>> /\ wjob = <<>> /\ wgDone = <<>>
    /\ prodPc = "idle" /\ prodI = 0
    /\ collPc = "idle" /\ collected = <<>>
    /\ received = <<>> /\ sent = <<>> /\ panicked = {}
    /\ data = <<>> /\ result = <<>> /\ closerPc = "idle"
    /\ genPc = "idle" /\ genI = 0
    /\ sqPc = "idle" /\ sqVal = 0
    /\ incPc = "idle" /\ incVal = 0
    /\ numbersClosed = 0 /\ squaresClosed = 0
    /\ retNil = TRUE
    /\ procI = 0 /\ processed = 0 /\ batchEnd = 0 /\ batchSize = 0
    /\ store = <<>>
    /\ heap = [a \in Addrs |-> ZeroEntity]
    /\ now = 0
    /\ lastOp = NoOp(ZeroKey)
    /\ live = <<>>
    /\ args = <<>> /\ flagSet = {} /\ runI = 0 /\ ran = <<>> /\ exitCode = 0
    /\ ccN = 0 /\ ccI = 0 /\ count = 0 /\ mu = 0 /\ reg = <<>> /\ ccRet = 0
    /\ srvPc = "idle" /\ shutdown = FALSE /\ doneClosed = 0

\* what the store's steps leave alone
NotStore == <<ctl, ctxErr, chans, wk, prod, coll, hist, pcv, pipe, retNil, seqv, more>>

\* m[k] = a
MapPut(m, k, a) == [x \in DOMAIN m \cup {k} |-> IF x = k THEN a ELSE m[x]]

\* delete(m, k)
MapDelete(m, k) == [x \in DOMAIN m \ {k} |-> m[x]]

\* what a call returns to the caller
Returned(name, a, k, err, ret) ==
    [name |-> name, obj |-> a, key |-> k, err |-> err, ret |-> ret, list |-> <<>>,
     op |-> "", field |-> ""]

\* the finite map the successful calls define: Create adds its key, Update
\* replaces the entity of a key it has, Delete removes its key
LiveAfter ==
    live' =
        IF lastOp'.err # "nil" THEN live
        ELSE CASE lastOp'.name = "Create" -> MapPut(live, lastOp'.key, lastOp'.obj)
               [] lastOp'.name = "Update" ->
                      IF lastOp'.key \in DOMAIN live
                      THEN MapPut(live, lastOp'.key, lastOp'.obj) ELSE live
               [] lastOp'.name = "Delete" -> MapDelete(live, lastOp'.key)
               [] OTHER -> live

\* the caller writes a field of one of its entities
CallerWrite(a) ==
    /\ prog \in StoreProgs
    /\ \/ /\ prog \in UserProgs
          /\ \/ \E v \in UserIDs : heap' = [heap EXCEPT ![a].ID = v]
             \/ \E v \in Names : heap' = [heap EXCEPT ![a].Name = v]
             \/ \E v \in Ages : heap' = [heap EXCEPT ![a].Age = v]
       \/ /\ prog = "taskService"
          /\ \/ \E v \in TaskIDs : heap' = [heap EXCEPT ![a].ID = v]
             \/ \E v \in Titles : heap' = [heap EXCEPT ![a].Title = v]
             \/ \E v \in Statuses : heap' = [heap EXCEPT ![a].Status = v]
    /\ heap' # heap
    /\ lastOp' = NoOp(ZeroKey)
    /\ UNCHANGED <<store, now, live, NotStore>>

\* ValidateUser with the upper age limit itself rejected
ValidateUserBelowMax(user) ==
    IF user.Name = "" THEN "ErrInvalidInput"
    ELSE IF user.Age < MinAge \/ user.Age >= MaxAge THEN "ErrInvalidInput"
    ELSE "nil"

\* UserService.ValidateUser
ValidateUser(user) ==
    IF user.Name = "" THEN "ErrInvalidInput"
    ELSE IF user.Age < MinAge \/ user.Age > MaxAge THEN "ErrInvalidInput"
    ELSE "nil"

\* CreateUser that reports a duplicate and stores the new pointer all the same
CreateUserReplaces(a) ==
    /\ prog = "UserService"
    /\ LET user == heap[a]
           err  == ValidateUser(user)
       IN  IF err # "nil"
           THEN /\ lastOp' = Returned("Create", a, user.ID, err, 0)
                /\ UNCHANGED <<store, heap, now>>
           ELSE IF user.ID \in DOMAIN store
           THEN /\ lastOp' = Returned("Create", a, user.ID, "already exists", 0)
                /\ store' = MapPut(store, user.ID, a)
                /\ UNCHANGED <<heap, now>>
           ELSE /\ \E t \in now..MaxClock :
                      /\ now' = t
                      /\ heap' = [heap EXCEPT ![a].CreatedAt = t]
                /\ store' = MapPut(store, user.ID, a)
                /\ lastOp' = Returned("Create", a, user.ID, "nil", 0)
    /\ UNCHANGED NotStore

\* UserService.CreateUser
CreateUser(a) ==
    /\ prog = "UserService"
    /\ LET user == heap[a]
           err  == ValidateUser(user)
       IN  IF err # "nil"
           THEN /\ lastOp' = Returned("Create", a, user.ID, err, 0)
                /\ UNCHANGED <<store, heap, now>>
           ELSE IF user.ID \in DOMAIN store
           THEN /\ lastOp' = Returned("Create", a, user.ID, "already exists", 0)
                /\ UNCHANGED <<store, heap, now>>
           ELSE /\ \E t \in now..MaxClock :
                      /\ now' = t
                      /\ heap' = [heap EXCEPT ![a].CreatedAt = t]
                /\ store' = MapPut(store, user.ID, a)
                /\ lastOp' = Returned("Create", a, user.ID, "nil", 0)
    /\ UNCHANGED NotStore

\* UserService.GetUser
GetUser(id) ==
    /\ prog = "UserService"
    /\ IF id \notin DOMAIN store
       THEN lastOp' = Returned("Get", 0, id, "ErrNotFound", 0)
       ELSE lastOp' = Returned("Get", 0, id, "nil", store[id])
    /\ UNCHANGED <<store, heap, now, NotStore>>

\* UserService.UpdateUser
UpdateUser(a) ==
    /\ prog = "UserService"
    /\ LET user == heap[a]
           err  == ValidateUser(user)
       IN  IF err # "nil"
           THEN /\ lastOp' = Returned("Update", a, user.ID, err, 0)
                /\ UNCHANGED store
           ELSE IF user.ID \notin DOMAIN store
           THEN /\ lastOp' = Returned("Update", a, user.ID, "ErrNotFound", 0)
                /\ UNCHANGED store
           ELSE /\ store' = MapPut(store, user.ID, a)
                /\ lastOp' = Returned("Update", a, user.ID, "nil", 0)
    /\ UNCHANGED <<heap, now, NotStore>>

\* DeleteUser that reports success for a key the map does not hold
DeleteUserSilent(id) ==
    /\ prog = "UserService"
    /\ store' = MapDelete(store, id)
    /\ lastOp' = Returned("Delete", 0, id, "nil", 0)
    /\ UNCHANGED <<heap, now, NotStore>>

\* UserService.DeleteUser
DeleteUser(id) ==
    /\ prog = "UserService"
    /\ IF id \notin DOMAIN store
       THEN /\ lastOp' = Returned("Delete", 0, id, "ErrNotFound", 0)
            /\ UNCHANGED store
       ELSE /\ store' = MapDelete(store, id)
            /\ lastOp' = Returned("Delete", 0, id, "nil", 0)
    /\ UNCHANGED <<heap, now, NotStore>>

\* &ProcessingError{Operation: op, Err: the error of r, Timestamp: time.Now()}
ProcessingError(r, op) == [r EXCEPT !.op = op]

\* example3's ValidateUser checking the age before the name
E3ValidateUserAgeFirst(user) ==
    IF user.Age < MinAge \/ user.Age > MaxAge
    THEN [field |-> "age", err |-> "age must be between 0 and 150"]
    ELSE IF user.Name = "" THEN [field |-> "name", err |-> "name cannot be empty"]
    ELSE [field |-> "", err |-> "nil"]

\* example3's UserService.ValidateUser: the field of the ValidationError it
\* returns and the message of the error inside, "" for nil
E3ValidateUser(user) ==
    IF user.Name = "" THEN [field |-> "name", err |-> "name cannot be empty"]
    ELSE IF user.Age < MinAge \/ user.Age > MaxAge
         THEN [field |-> "age", err |-> "age must be between 0 and 150"]
    ELSE [field |-> "", err |-> "nil"]

\* example3's UserService.CreateUser
E3CreateUser(a) ==
    /\ prog = "example3.UserService"
    /\ LET user == heap[a]
           v    == E3ValidateUser(user)
       IN  \E t \in now..MaxClock :
             /\ now' = t
             /\ IF v.err # "nil"
                THEN /\ lastOp' = ProcessingError(
                                     [Returned("Create", a, user.ID, v.err, 0)
                                          EXCEPT !.field = v.field], "create_user")
                     /\ UNCHANGED <<store, heap>>
                ELSE IF user.ID \in DOMAIN store
                THEN /\ lastOp' = ProcessingError(
                                     Returned("Create", a, user.ID, "already exists", 0),
                                     "create_user")
                     /\ UNCHANGED <<store, heap>>
                ELSE /\ heap' = [heap EXCEPT ![a].CreatedAt = t]
                     /\ store' = MapPut(store, user.ID, a)
                     /\ lastOp' = Returned("Create", a, user.ID, "nil", 0)
    /\ UNCHANGED NotStore

\* example3's UserService.GetUser
E3GetUser(id) ==
    /\ prog = "example3.UserService"
    /\ IF id \notin DOMAIN store
       THEN /\ \E t \in now..MaxClock : now' = t
            /\ lastOp' = ProcessingError(Returned("Get", 0, id, "ErrNotFound", 0), "get_user")
       ELSE /\ lastOp' = Returned("Get", 0, id, "nil", store[id])
            /\ UNCHANGED now
    /\ UNCHANGED <<store, heap, NotStore>>

\* taskService.validateTask
validateTask(task) ==
    IF task.Title = "" THEN "ErrInvalidInput"
    ELSE IF task.Status = "" THEN "ErrInvalidInput"
    ELSE "nil"

\* taskService.Create
TaskCreate(a) ==
    /\ prog = "taskService"
    /\ LET task == heap[a]
           err  == validateTask(task)
       IN  IF err # "nil"
           THEN /\ lastOp' = Returned("Create", a, task.ID, err, 0)
                /\ UNCHANGED <<store, heap, now>>
           ELSE IF task.ID \in DOMAIN store
           THEN /\ lastOp' = Returned("Create", a, task.ID, "already exists", 0)
                /\ UNCHANGED <<store, heap, now>>
           ELSE /\ \E t \in now..MaxClock :
                      /\ now' = t
                      /\ heap' = [heap EXCEPT ![a].CreatedAt = t, ![a].UpdatedAt = t]
                /\ store' = MapPut(store, task.ID, a)
                /\ lastOp' = Returned("Create", a, task.ID, "nil", 0)
    /\ UNCHANGED NotStore

\* taskService.Get
TaskGet(id) ==
    /\ prog = "taskService"
    /\ IF id \notin DOMAIN store
       THEN lastOp' = Returned("Get", 0, id, "ErrNotFound", 0)
       ELSE lastOp' = Returned("Get", 0, id, "nil", store[id])
    /\ UNCHANGED <<store, heap, now, NotStore>>

\* taskService.Update
TaskUpdate(a) ==
    /\ prog = "taskService"
    /\ LET task == heap[a]
           err  == validateTask(task)
       IN  IF err # "nil"
           THEN /\ lastOp' = Returned("Update", a, task.ID, err, 0)
                /\ UNCHANGED <<store, heap, now>>
           ELSE IF task.ID \notin DOMAIN store
           THEN /\ lastOp' = Returned("Update", a, task.ID, "ErrNotFound", 0)
                /\ UNCHANGED <<store, heap, now>>
           ELSE /\ \E t \in now..MaxClock :
                      /\ now' = t
                      /\ heap' = [heap EXCEPT ![a].UpdatedAt = t]
                /\ store' = MapPut(store, task.ID, a)
                /\ lastOp' = Returned("Update", a, task.ID, "nil", 0)
    /\ UNCHANGED NotStore

\* Delete that reports success and keeps the entry
TaskDeleteKeeps(id) ==
    /\ prog = "taskService"
    /\ IF id \notin DOMAIN store
       THEN lastOp' = Returned("Delete", 0, id, "ErrNotFound", 0)
       ELSE lastOp' = Returned("Delete", 0, id, "nil", 0)
    /\ UNCHANGED <<store, heap, now, NotStore>>

\* taskService.Delete
TaskDelete(id) ==
    /\ prog = "taskService"
    /\ IF id \notin DOMAIN store
       THEN /\ lastOp' = Returned("Delete", 0, id, "ErrNotFound", 0)
            /\ UNCHANGED store
       ELSE /\ store' = MapDelete(store, id)
            /\ lastOp' = Returned("Delete", 0, id, "nil", 0)
    /\ UNCHANGED <<heap, now, NotStore>>

\* the orders in which a range over a map with the keys S may visit them
RECURSIVE KeyOrders(_)
KeyOrders(S) ==
    IF S = {} THEN { <<>> }
    ELSE UNION { { <<k>> \o rest : rest \in KeyOrders(S \ {k}) } : k \in S }

\* taskService.List: the entities in the order the range over s.tasks visits them
TaskList ==
    /\ prog = "taskService"
    /\ \E ord \in KeyOrders(DOMAIN store) :
          lastOp' = [name |-> "List", obj |-> 0, key |-> ZeroKey, err |-> "nil", ret |-> 0,
                     list |-> [i \in 1..Len(ord) |-> store[ord[i]]],
                     op |-> "", field |-> ""]
    /\ UNCHANGED <<store, heap, now, NotStore>>

StoreNext ==
    \/ \E a \in Addrs : CallerWrite(a)
    \/ \E a \in Addrs : CreateUser(a) /\ LiveAfter
    \/ \E id \in UserIDs : GetUser(id) /\ LiveAfter
    \/ \E a \in Addrs : UpdateUser(a) /\ LiveAfter
    \/ \E id \in UserIDs : DeleteUser(id) /\ LiveAfter
    \/ \E a \in Addrs : TaskCreate(a) /\ LiveAfter
    \/ \E id \in TaskIDs : TaskGet(id) /\ LiveAfter
    \/ \E a \in Addrs : TaskUpdate(a) /\ LiveAfter
    \/ \E id \in TaskIDs : TaskDelete(id) /\ LiveAfter
    \/ TaskList /\ LiveAfter
    \/ \E a \in Addrs : E3CreateUser(a) /\ LiveAfter
    \/ \E id \in UserIDs : E3GetUser(id) /\ LiveAfter

StoreSpec == StoreInit /\ [][StoreNext]_vars

\* scheduling of example2.Run: every goroutine step is taken eventually if it
\* stays possible (the Go scheduler starves no runnable goroutine); the
\* deadline timer is not forced to fire
Fairness ==
    /\ WF_vars(RunStart) /\ WF_vars(RunWait) /\ WF_vars(RunCloseResults)
    /\ WF_vars(RunCheck) /\ WF_vars(RunDeferCancel)
    /\ WF_vars(RunCollectorRecv) /\ WF_vars(RunCollectorExit)
    /\ WF_vars(RunProducerCtxDone) /\ WF_vars(RunProducerSend) /\ WF_vars(RunProducerFinish)
    /\ \A w \in 1..NumWorkers :
          /\ WF_vars(w \in Workers /\ WorkerCtxDone(w))
          /\ WF_vars(w \in Workers /\ WorkerRecv(w))
          /\ WF_vars(w \in Workers /\ WorkerJobsClosed(w))
          /\ WF_vars(w \in Workers /\ WorkerSend(w))

FairSpec == Spec /\ Fairness

\* scheduling of example2.RunPipeline: every step of the stages and of the
\* collecting loop is taken eventually if it stays possible; the deadline
\* timer is not forced to fire
PipeFairness ==
    /\ WF_vars(PipeStart) /\ WF_vars(PipeReturn) /\ WF_vars(PipeDeferCancel)
    /\ WF_vars(GenCtxDone) /\ WF_vars(GenSend) /\ WF_vars(GenFinish)
    /\ WF_vars(SqRangeEnd) /\ WF_vars(SqCtxDone) /\ WF_vars(SqSend)
    /\ WF_vars(IncRangeEnd) /\ WF_vars(IncCtxDone) /\ WF_vars(IncSend)

PipeFairSpec == Spec /\ PipeFairness

(***************************************************************************)
(* Properties                                                              *)
(***************************************************************************)

Count(seq, v) == Cardinality({i \in DOMAIN seq : seq[i] = v})

Range(f) == {f[x] : x \in DOMAIN f}

AllWorkersExited == \A w \in Workers : wpc[w] = "exited"

\* Run has got past wg.Wait()
RunJoined == prog = "Run" /\ mainPc \in {"close", "check", "defer", "returned"}

\* C1: in a run of the worker pool in which the deadline never fires, once the
\* workers are joined the values sent on results are exactly the doubles of the
\* submitted jobs 1..NumJobs, each sent once: nothing duplicated, nothing dropped.
C1_ResultsExactlyOnce ==
    (RunJoined /\ ctxErr # "DeadlineExceeded") =>
        /\ Len(sent) = NumJobs
        /\ \A j \in 1..NumJobs : Count(sent, 2 * j) = 1

\* a run without cancellation has returned, and two workers delivered their
\* results out of job order
C1_Witness ==
    /\ prog = "Run" /\ mainPc = "returned" /\ ctxErr = "Canceled"
    /\ Len(sent) = NumJobs
    /\ \E i \in 1..(Len(sent) - 1) : sent[i] > sent[i + 1]

\* C2: Run returns the timeout error only if fewer than NumJobs results were
\* produced, and returns nil only if all NumJobs results were produced.
C2_TimedOutIffIncomplete ==
    (prog = "Run" /\ mainPc \in {"defer", "returned"}) =>
        /\ (retErr = "processing timed out" => Len(sent) < NumJobs)
        /\ (retErr = "nil" => Len(sent) = NumJobs)

\* C3: under fair scheduling every call of Run returns, with every worker
\* exited and the WaitGroup at 0.
C3_RunTerminates ==
    (prog = "Run") ~> (mainPc = "returned" /\ wg = 0 /\ AllWorkersExited)

\* Run returned after the deadline cut the work short: workers left through
\* the ctx.Done case with jobs never received
C3_Witness ==
    /\ prog = "Run" /\ mainPc = "returned"
    /\ AllWorkersExited
    /\ ctxErr = "DeadlineExceeded"
    /\ Len(received) < NumJobs

\* C4: once ctx.Done has tripped no worker of the pool receives another job.
C4_NoReceiveAfterTrip ==
    [][(prog = "Run" /\ CtxDone) => received' = received]_vars

\* C5: in Run and ProcessConcurrent results is closed at most once, only when
\* every worker has exited, and no worker sends on the closed channel.
C5_ResultsClosedAfterWorkers ==
    (prog \in {"Run", "ProcessConcurrent"}) =>
        /\ resultsClosed <= 1
        /\ (resultsClosed > 0 => (wg = 0 /\ AllWorkersExited))
        /\ "send on closed results" \notin panicked
        /\ "close of closed results" \notin panicked

\* results was closed after the workers had sent on it and left on cancellation
C5_Witness ==
    /\ prog = "Run" /\ resultsClosed = 1
    /\ sent # <<>>
    /\ ctxErr = "DeadlineExceeded"
    /\ Len(received) < NumJobs

\* C6: in Run and ProcessConcurrent jobs is closed at most once, by the
\* producer as it exits (so after its last send), and nothing is sent on the
\* closed channel.
C6_JobsClosedByProducerOnce ==
    (prog \in {"Run", "ProcessConcurrent"}) =>
        /\ jobsClosed <= 1
        /\ (jobsClosed > 0 <=> prodPc = "exited")
        /\ "send on closed jobs" \notin panicked
        /\ "close of closed jobs" \notin panicked

\* the producer closed jobs on cancellation before it had sent every job
C6_Witness ==
    /\ prog = "Run" /\ jobsClosed = 1
    /\ CtxDone
    /\ prodI > 1 /\ prodI <= NumJobs

\* C7: in the worker pool no job is received twice, two working workers never
\* hold the same job, and without cancellation every job has been received
\* exactly once when the workers are joined.
C7_JobReceivedOnce ==
    (prog = "Run") =>
        /\ \A j \in 1..NumJobs : Count(received, j) <= 1
        /\ \A v, w \in Workers :
              (v # w /\ wpc[v] = "work" /\ wpc[w] = "work") => wjob[v] # wjob[w]
        /\ (RunJoined /\ ctxErr # "DeadlineExceeded") =>
              \A j \in 1..NumJobs : Count(received, j) = 1

\* every worker is working at once, each on a job of its own
C7_Witness ==
    /\ prog = "Run" /\ mainPc = "wait"
    /\ \A w \in Workers : wpc[w] = "work"
    /\ Len(received) = NumWorkers

\* C8: each worker calls wg.Done() exactly once, when it exits; the counter is
\* numWorkers minus the workers exited, never negative, and 0 when Run returns;
\* a deadline trip followed by the deferred cancel() leaves the deadline trip's
\* effect in place.
C8_WaitGroupOncePerWorker ==
    (prog = "Run") =>
        /\ wg >= 0
        /\ wg = numWorkers - Cardinality({w \in Workers : wpc[w] = "exited"})
        /\ \A w \in Workers : wgDone[w] = (IF wpc[w] = "exited" THEN 1 ELSE 0)
        /\ (mainPc = "returned" => wg = 0)
        /\ (mainPc = "returned" /\ retErr = "processing timed out") =>
              (ctxErr = "DeadlineExceeded" /\ panicked = {})

\* Run returned after the deadline tripped and the deferred cancel() ran, one
\* worker having left through ctx.Done and another through the closed channel
C8_Witness ==
    /\ prog = "Run" /\ mainPc = "returned"
    /\ retErr = "processing timed out"
    /\ wg = 0
    /\ Len(received) < NumJobs

\* C9: when Run, RunPipeline or ProcessConcurrent has returned, every
\* goroutine it started has exited.
C9_NoGoroutineOutlivesReturn ==
    (mainPc = "returned") =>
        ({prodPc, collPc, closerPc, genPc, sqPc, incPc} \cup Range(wpc)) \subseteq {"idle", "exited"}

\* C10: ProcessConcurrent returns a nil error only with the complete result,
\* result[i] the processed data[i] for every i.
C10_NilErrorMeansComplete ==
    (prog = "ProcessConcurrent" /\ mainPc = "returned" /\ retErr = "nil") =>
        /\ Len(result) = Len(data)
        /\ \A i \in 1..Len(data) : result[i] = [k \in 1..Len(data[i]) |-> UpperByte(data[i][k])]

ProcessorProgs == {"Process", "ProcessBatch", "ProcessConcurrent"}

\* C11: Process, ProcessBatch and ProcessConcurrent called with empty data
\* never start a worker, the producer or the closer and never touch a channel,
\* and they return ErrInvalidInput with a nil result.
C11_EmptyDataRejected ==
    (prog \in ProcessorProgs /\ Len(data) = 0) =>
        /\ DOMAIN wpc = {} /\ prodPc = "idle" /\ closerPc = "idle"
        /\ jobs = <<>> /\ results = <<>> /\ jobsClosed = 0 /\ resultsClosed = 0
        /\ mainPc \in {"start", "returned"}
        /\ (mainPc = "returned" => (retErr = "ErrInvalidInput" /\ retNil))

\* ProcessConcurrent asked for two workers has rejected an empty slice
C11_Witness ==
    /\ prog = "ProcessConcurrent" /\ Len(data) = 0 /\ numWorkers = NumWorkers
    /\ mainPc = "returned" /\ retErr = "ErrInvalidInput"

\* C12 as stated: a call with empty data returns an empty result and no error.
C12_EmptyInputNoError ==
    (prog \in ProcessorProgs /\ Len(data) = 0 /\ mainPc = "returned") =>
        (retErr = "nil" /\ Len(result) = 0)

\* C12 as amended: a call with empty data returns in its first step, whatever
\* the state of the context, with no item processed, a result of length 0 and
\* the error ErrInvalidInput (never nil, never the context's error).
C12_EmptyInputReturnsAtOnce ==
    [][(prog \in ProcessorProgs /\ Len(data) = 0 /\ mainPc = "start" /\ mainPc' # mainPc) =>
          /\ mainPc' = "returned"
          /\ retErr' = "ErrInvalidInput"
          /\ Len(result') = 0
          /\ sent' = <<>>]_vars

\* Process returned on empty data although its context was already cancelled
C12_Witness ==
    /\ prog = "Process" /\ Len(data) = 0
    /\ mainPc = "returned" /\ CtxDone
    /\ retErr = "ErrInvalidInput"

\* RunPipeline's collecting loop is over
PipeCollected == prog = "RunPipeline" /\ mainPc \in {"defer", "returned"}

\* C13: in a run of RunPipeline in which the deadline never fires, the values
\* the collecting loop received are 2, 5, 10, 17 and 26, each exactly once.
C13_PipelineOutputs ==
    (PipeCollected /\ ctxErr # "DeadlineExceeded") =>
        /\ Len(collected) = PipelineCount
        /\ \A v \in {2, 5, 10, 17, 26} : Count(collected, v) = 1

\* RunPipeline returned without the deadline having fired
C13_Witness ==
    /\ prog = "RunPipeline" /\ mainPc = "returned" /\ ctxErr = "Canceled"
    /\ Len(collected) = PipelineCount

\* every stage has exited and closed its output channel, and RunPipeline returned
PipeAllDone ==
    /\ genPc = "exited" /\ sqPc = "exited" /\ incPc = "exited"
    /\ numbersClosed = 1 /\ squaresClosed = 1 /\ resultsClosed = 1
    /\ mainPc = "returned"

\* C14: under fair scheduling, once the context of RunPipeline is done the
\* generator, the square stage and the +1 stage each exit and close their
\* output channel, and the collecting loop ends.
C14_CancellationReachesEveryStage ==
    (prog = "RunPipeline" /\ CtxDone) ~> PipeAllDone

\* the pipeline wound up after a deadline that cut it short, with a value
\* still held by the square stage
C14_Witness ==
    /\ prog = "RunPipeline" /\ PipeAllDone
    /\ ctxErr = "DeadlineExceeded"
    /\ Len(collected) < PipelineCount
    /\ genI <= PipelineCount

\* C15 as stated: a stage's output channel is closed only when its input
\* channel has been closed.
C15_OutputClosedAfterInput ==
    (prog = "RunPipeline") =>
        /\ (squaresClosed > 0 => numbersClosed > 0)
        /\ (resultsClosed > 0 => squaresClosed > 0)

\* C15 as amended: a stage's output channel is closed only when its input
\* channel has been closed by the upstream stage or the context is done; each
\* channel is closed at most once, by its stage as it exits.
C15_OutputClosedAfterInputOrCancel ==
    (prog = "RunPipeline") =>
        /\ (squaresClosed > 0 => (numbersClosed > 0 \/ CtxDone))
        /\ (resultsClosed > 0 => (squaresClosed > 0 \/ CtxDone))
        /\ numbersClosed <= 1 /\ squaresClosed <= 1 /\ resultsClosed <= 1
        /\ (numbersClosed > 0 <=> genPc = "exited")
        /\ (squaresClosed > 0 <=> sqPc = "exited")
        /\ (resultsClosed > 0 <=> incPc = "exited")

\* without cancellation the square stage closed squares after numbers was
\* closed and every value delivered
C15_Witness ==
    /\ prog = "RunPipeline" /\ ~CtxDone
    /\ squaresClosed = 1 /\ numbersClosed = 1
    /\ genI > PipelineCount

\* item with ASCII a-z upper-cased and every other byte unchanged
AsciiUpper(item) ==
    [k \in 1..Len(item) |-> IF item[k] \in 97..122 THEN item[k] - 32 ELSE item[k]]

\* C16: with an uncancelled context and non-empty data, ProcessConcurrent (and
\* Process) return a non-nil slice of len(data) entries with result[i] the
\* upper-cased data[i], whatever the worker count and the order of delivery.
C16_ConcurrentResultInInputOrder ==
    (prog \in {"ProcessConcurrent", "Process"} /\ mainPc = "returned"
        /\ ctxErr = "nil" /\ Len(data) > 0) =>
        /\ retErr = "nil" /\ ~retNil
        /\ Len(result) = Len(data)
        /\ \A i \in 1..Len(data) : result[i] = AsciiUpper(data[i])

\* ProcessConcurrent returned after two workers delivered their results against
\* the input order, for two different items
C16_Witness ==
    /\ prog = "ProcessConcurrent" /\ mainPc = "returned" /\ ctxErr = "nil"
    /\ Len(collected) = Len(data) /\ Len(data) >= 2
    /\ collected[1].index > collected[2].index
    /\ data[1] # data[2]

\* C17: in the worker pool every job received gets exactly one result: the
\* results sent are those of the jobs received less the ones still being
\* worked on, and once the workers are joined there are as many results as
\* jobs received, cancelled or not.
C17_OneResultPerReceivedJob ==
    (prog = "Run") =>
        /\ Len(received) = Len(sent) + Cardinality({w \in Workers : wpc[w] = "work"})
        /\ \A i \in 1..Len(received) :
              Count(sent, 2 * received[i]) =
                  (IF \E w \in Workers : wpc[w] = "work" /\ wjob[w] = received[i] THEN 0 ELSE 1)
        /\ (RunJoined => Len(sent) = Len(received))

\* the deadline tripped while a worker held a job, and the pool has wound up
\* with some jobs never started
C17_Witness ==
    /\ prog = "Run" /\ mainPc = "returned"
    /\ retErr = "processing timed out"
    /\ Len(received) > 0 /\ Len(received) < NumJobs
    /\ Len(sent) = Len(received)

\* malformed input, as the stores' contract words it
Malformed(e) ==
    IF prog = "taskService"
    THEN e.Title = "" \/ e.Status = ""
    ELSE e.Name = "" \/ e.Age \notin MinAge..MaxAge

\* C18: in both stores, Get and Delete of a key the store does not hold, and
\* Update of a valid entity whose key the store does not hold, return
\* ErrNotFound and change neither the map nor any entity.
C18_MissingKeyIsNotFound ==
    [][ ( \/ /\ lastOp'.name \in {"Get", "Delete"}
             /\ lastOp'.key \notin DOMAIN store
          \/ /\ lastOp'.name = "Update"
             /\ ~Malformed(heap[lastOp'.obj])
             /\ heap[lastOp'.obj].ID \notin DOMAIN store )
        => /\ lastOp'.err = "ErrNotFound"
           /\ store' = store
           /\ heap' = heap ]_vars

\* an Update of a valid entity was refused as not found while the store held another key
C18_Witness ==
    /\ prog \in StoreProgs
    /\ lastOp.name = "Update"
    /\ lastOp.err = "ErrNotFound"
    /\ ~Malformed(heap[lastOp.obj])
    /\ store # <<>>

\* C19: in both stores, Create and Update of a malformed entity return
\* ErrInvalidInput and change neither the map nor any entity, whether or not
\* the key is held; and they return ErrInvalidInput only for a malformed entity.
C19_MalformedIsInvalidInput ==
    [][ (prog \in {"UserService", "taskService"} /\ lastOp'.name \in {"Create", "Update"})
        => /\ (lastOp'.err = "ErrInvalidInput") <=> Malformed(heap[lastOp'.obj])
           /\ Malformed(heap[lastOp'.obj]) => (store' = store /\ heap' = heap) ]_vars

\* an Update was refused as invalid although the store holds its key
C19_Witness ==
    /\ prog \in StoreProgs
    /\ lastOp.name = "Update"
    /\ lastOp.err = "ErrInvalidInput"
    /\ lastOp.key \in DOMAIN store

\* C20: what Get and List return is what a finite map would return that the
\* successful Creates, Updates and Deletes so far define: Get succeeds exactly
\* for the live keys and returns the entity last created or updated under the
\* key, and List returns one entity per live key, each the live entity of a
\* different key.
C20_StoreIsFiniteMap ==
    /\ lastOp.name = "Get"
       => /\ (lastOp.err = "nil") <=> (lastOp.key \in DOMAIN live)
          /\ (lastOp.err # "nil") <=> (lastOp.err = "ErrNotFound")
          /\ lastOp.err = "nil" => lastOp.ret = live[lastOp.key]
    /\ lastOp.name = "List"
       => /\ lastOp.err = "nil"
          /\ Len(lastOp.list) = Cardinality(DOMAIN live)
          /\ \E ord \in KeyOrders(DOMAIN live) :
                \A i \in 1..Len(ord) : lastOp.list[i] = live[ord[i]]

\* Get returned the entity of one of two live keys
C20_Witness ==
    /\ prog \in StoreProgs
    /\ lastOp.name = "Get"
    /\ lastOp.err = "nil"
    /\ lastOp.ret = live[lastOp.key]
    /\ Cardinality(DOMAIN live) = 2

\* C21: started with the one argument 3 and no flag, main runs example3.Run
\* and then example3.RunErrorWrapping.
C21_PositionalThreeRunsExample3 ==
    (prog = "main" /\ args = << Arg(0, "3") >> /\ mainPc = "exited")
        => ran = <<"example3.Run", "example3.RunErrorWrapping">>

\* what Process returns for data when its context is never cancelled: the
\* items in order, each through processItem
Processed(d) == [i \in 1..Len(d) |-> processItem(d[i])]

\* C22: for non-empty data and any batchSize, ProcessBatch (a) replaces a
\* batchSize <= 0 by 100, (b) only ever raises processed, (c) writes the
\* indexes in increasing order, each once, (d) returns with a nil error only
\* with processed = len(data) and the slice Process returns, and (e) unless
\* its context is cancelled, does return with a nil error.
C22_BatchEqualsProcess ==
    /\ [][ (prog = "ProcessBatch" /\ mainPc = "start" /\ mainPc' = "select")
            => batchSize' = (IF batchSize <= 0 THEN DefaultBatch ELSE batchSize) ]_vars
    /\ [][ (prog = "ProcessBatch" /\ mainPc # "start" /\ processed' # processed)
            => (processed' > processed /\ processed' <= Len(data)) ]_vars
    /\ [][ (prog = "ProcessBatch" /\ mainPc # "start" /\ result' # result)
            => /\ \A i \in 1..Len(data) : (result[i] # <<>>) <=> (i < procI)
               /\ result' = [result EXCEPT ![procI] = processItem(data[procI])]
               /\ procI' = procI + 1 ]_vars
    /\ []( (prog \in {"Process", "ProcessBatch"} /\ mainPc = "returned" /\ retErr = "nil")
            => /\ ~retNil
               /\ result = Processed(data)
               /\ prog = "ProcessBatch" => processed = Len(data) )
    /\ (prog = "ProcessBatch" /\ Len(data) > 0)
           ~> (CtxDone \/ (mainPc = "returned" /\ retErr = "nil"))

\* ProcessBatch returned the whole result after two batches of one item
C22_Witness ==
    /\ prog = "ProcessBatch" /\ mainPc = "returned" /\ retErr = "nil"
    /\ Len(data) = 2 /\ batchSize = 1
    /\ result = Processed(data)

\* Process or ProcessBatch has returned
SeqReturned == prog \in {"Process", "ProcessBatch"} /\ mainPc = "returned"

\* the complete result with a nil error
ReturnedComplete == retErr = "nil" /\ ~retNil /\ result = Processed(data)

\* a nil result with the context's error
ReturnedCtxErr == retNil /\ CtxDone /\ retErr = ctxErr

\* C24 as stated: every call of Process and ProcessBatch returns either the
\* complete result with a nil error or a nil result with the context's error.
C24_CompleteOrContextError ==
    SeqReturned => (ReturnedComplete \/ ReturnedCtxErr)

\* C24, amended: every call returns the complete result with a nil error, a
\* nil result with the context's error, or - for empty data - a nil result
\* with ErrInvalidInput; with non-empty data, a context found done where the
\* code looks at it (before each item of Process, before each batch of
\* ProcessBatch) makes the call return the context's error at once, so a
\* context cancelled before the call returns it with no item processed; and
\* ProcessBatch returns the context's error only from between two batches.
C24_NoPartialResults ==
    /\ []( SeqReturned =>
            \/ ReturnedComplete
            \/ ReturnedCtxErr
            \/ (Len(data) = 0 /\ retNil /\ retErr = "ErrInvalidInput") )
    /\ [][ (prog \in {"Process", "ProcessBatch"} /\ mainPc = "start" /\ mainPc' # "start"
             /\ Len(data) > 0)
            => /\ mainPc' \in {"loop", "select"}
               /\ \A i \in 1..Len(data) : result'[i] = <<>> ]_vars
    /\ [][ ( /\ CtxDone
             /\ \/ prog = "Process" /\ mainPc = "loop" /\ procI <= Len(data)
                \/ prog = "ProcessBatch" /\ mainPc = "select" /\ processed < Len(data) )
            => /\ mainPc' = "returned"
               /\ retNil' /\ retErr' = ctxErr
               /\ result' = result ]_vars
    /\ [][ (prog = "ProcessBatch" /\ mainPc = "batch")
            => (mainPc' \in {"batch", "select"} /\ retErr' = retErr) ]_vars

\* ProcessBatch gave up between its first and its second batch and returned
\* a nil slice with the context's error
C24_Witness ==
    /\ prog = "ProcessBatch" /\ mainPc = "returned"
    /\ ReturnedCtxErr
    /\ processed > 0 /\ processed < Len(data)

\* C25: RunPipeline returns nil in every execution, also when its deadline
\* fired and the collecting loop received fewer than 5 values.
C25_PipelineAlwaysReturnsNil ==
    prog = "RunPipeline" => retErr = "nil"

\* RunPipeline returned nil after its deadline cut the output short
C25_Witness ==
    /\ prog = "RunPipeline" /\ mainPc = "returned"
    /\ ctxErr = "DeadlineExceeded"
    /\ Len(collected) < PipelineCount
    /\ retErr = "nil"

\* i * i + 1 for i = 1..5: 2, 5, 10, 17, 26
PipelineExpected == [i \in 1..PipelineCount |-> i * i + 1]

\* C26: at every moment of every run of RunPipeline, cancelled or not, what
\* the collecting loop has received is a prefix of 2, 5, 10, 17, 26.
C26_CollectedIsPrefix ==
    prog = "RunPipeline" =>
        /\ Len(collected) <= PipelineCount
        /\ collected = SubSeq(PipelineExpected, 1, Len(collected))
        /\ PipelineExpected = <<2, 5, 10, 17, 26>>

\* the deadline ended the run after exactly two values
C26_Witness ==
    /\ prog = "RunPipeline" /\ mainPc = "returned"
    /\ ctxErr = "DeadlineExceeded"
    /\ collected = <<2, 5>>

\* C23: in example3's UserService every error is a ProcessingError tagged with
\* the operation (create_user, get_user) and the call that returned it changed
\* neither the map nor any user; CreateUser of a user with an empty name wraps
\* a ValidationError for name, of a user with a name and an age outside
\* 0..150 a ValidationError for age, of a valid user whose ID is stored an
\* "already exists" error; GetUser of an id not stored wraps ErrNotFound; and
\* a call not of these kinds returns no error.
C23_ErrorsAreWrapped ==
    [][ (prog = "example3.UserService" /\ lastOp'.name \in {"Create", "Get"})
        => /\ lastOp'.err # "nil"
                => /\ lastOp'.op = (IF lastOp'.name = "Create" THEN "create_user" ELSE "get_user")
                   /\ store' = store /\ heap' = heap
           /\ lastOp'.name = "Create"
                => LET user == heap[lastOp'.obj]
                   IN  /\ user.Name = ""
                            => lastOp'.field = "name" /\ lastOp'.err = "name cannot be empty"
                       /\ (user.Name # "" /\ user.Age \notin MinAge..MaxAge)
                            => /\ lastOp'.field = "age"
                               /\ lastOp'.err = "age must be between 0 and 150"
                       /\ (~Malformed(user) /\ user.ID \in DOMAIN store)
                            => lastOp'.field = "" /\ lastOp'.err = "already exists"
                       /\ (~Malformed(user) /\ user.ID \notin DOMAIN store)
                            => lastOp'.err = "nil"
           /\ lastOp'.name = "Get"
                => /\ lastOp'.field = ""
                   /\ lastOp'.err = (IF lastOp'.key \in DOMAIN store THEN "nil" ELSE "ErrNotFound")
      ]_vars

\* CreateUser refused a user whose name and age are both invalid, naming the name
C23_Witness ==
    /\ prog = "example3.UserService"
    /\ lastOp.name = "Create" /\ lastOp.op = "create_user"
    /\ lastOp.field = "name"
    /\ heap[lastOp.obj].Age = MaxAge + 1

\* C27: in example4's UserService every user a successful GetUser(id) returns
\* has ID = id and passes ValidateUser, whatever the caller did to its users
\* between the calls.
C27_GetReturnsOwnValidUser ==
    (prog = "UserService" /\ lastOp.name = "Get" /\ lastOp.err = "nil")
        => /\ heap[lastOp.ret].ID = lastOp.key
           /\ ~Malformed(heap[lastOp.ret])

\* C28: in the three stores, Create of a valid entity whose ID is stored
\* returns the "already exists" error and changes neither the map nor any
\* entity, and Create of a malformed entity whose ID is stored returns the
\* validation error, not the "already exists" error.
C28_DuplicateCreateChangesNothing ==
    [][ (prog \in StoreProgs /\ lastOp'.name = "Create"
            /\ heap[lastOp'.obj].ID \in DOMAIN store)
        => IF Malformed(heap[lastOp'.obj])
           THEN lastOp'.err \notin {"nil", "already exists"}
           ELSE /\ lastOp'.err = "already exists"
                /\ store' = store
                /\ heap' = heap ]_vars

\* Create was refused for a second entity with the ID of a stored one
C28_Witness ==
    /\ prog \in StoreProgs
    /\ lastOp.name = "Create" /\ lastOp.err = "already exists"
    /\ lastOp.key \in DOMAIN store
    /\ store[lastOp.key] # lastOp.obj

\* the goroutines of concurrentCounter between mu.Lock() and mu.Unlock()
InCritical == { g \in Goroutines : wpc[g] \in {"read", "write", "unlock"} }

\* C29: concurrentCounter(n) returns n for every n >= 0: at most one goroutine
\* is between Lock and Unlock at a time, count is the number of increments
\* completed, and wg.Wait() returns, and count is read, only when all n
\* goroutines have been started and have finished.
C29_CounterReturnsN ==
    prog = "concurrentCounter" =>
        /\ Cardinality(InCritical) <= 1
        /\ count = Cardinality({ g \in Goroutines : wpc[g] \in {"unlock", "return", "exited"} })
        /\ mainPc \in {"waited", "returned"}
              => /\ ccN >= 0 => Cardinality(Goroutines) = ccN
                 /\ \A g \in Goroutines : wpc[g] = "exited"
        /\ (mainPc = "returned" /\ ccN >= 0) => ccRet = ccN

\* concurrentCounter returned the largest n
C29_Witness ==
    /\ prog = "concurrentCounter" /\ mainPc = "returned"
    /\ ccN = MaxN /\ ccRet = MaxN

\* C30: whenever example8.Run has returned after starting the server
\* goroutine, srv.Shutdown has been called and the server goroutine has
\* closed done.
C30_ServerStoppedBeforeReturn ==
    (prog = "example8.Run" /\ mainPc = "returned" /\ srvPc # "idle")
        => (shutdown /\ doneClosed > 0)

====
